---- MODULE Spec2Model ----
(***************************************************************************)
(* A model of the passthrough FUSE server rootfs/utils/fuse/fpll.cpp: the  *)
(* inode table (ino_to_ptr), the forgotten-inode map, the root child index *)
(* (root_dir_inodes / root_dir_names), the lookup / forget / link / mknod  *)
(* handlers run by concurrent worker threads, and the delete-notification  *)
(* side channel.  Every step between two accesses to shared state is one   *)
(* action; a critical section of lo->mutex is one action.                  *)
(***************************************************************************)
EXTENDS Integers, Sequences, FiniteSets, TLC

(* ------------------------------ bounds --------------------------------- *)
\* Number of requests (kernel requests and side-channel requests) served in
\* one behaviour.
MaxReqs == 4

(* ----------------------------- constants ------------------------------- *)
FUSE_ROOT_ID == 1
NULL == 0
NoFd == -1
ECHILD == 10
ENOMEM == 12

\* The backing tree: one device; the root directory, a directory "d" in it.
RootDev == 1
RootIno == 2
DirIno == RootIno + 1
FirstFileIno == DirIno + 1

\* &lo.root, the statically allocated root record.
RootRec == 1

Workers == {"w1", "w2"}
RpcConns == {"r1"}
Threads == Workers \cup RpcConns

FsNames == {"d", "f"}
Names == FsNames \cup {"."}

Inos == RootIno..(FirstFileIno + MaxReqs)

root_inode_key == <<RootDev, RootIno>>

\* Stand-in for wyhash over the 16 bytes of (dev, ino), with 6-bit words
\* for 64-bit ones: a deterministic mix onto the whole range of the word,
\* injective on the inode numbers of the backing tree.
wyhash(dev, ino) == ((dev * 16 + ino) * 37 + 11) % 64

\* A variant without the special case of the root.
hash_st_ino_NoRoot(dev, ino) == wyhash(dev, ino)

hash_st_ino(dev, ino) ==
    IF dev = root_inode_key[1] /\ ino = root_inode_key[2]
    THEN FUSE_ROOT_ID
    ELSE wyhash(dev, ino)

Handles == {hash_st_ino(RootDev, i) : i \in Inos}

AllPaths == {<<"/">>, <<"/", "d">>, <<"/", "f">>, <<"/", "d", "f">>}
\* What readlink("/proc/self/fd/N") yields for an unlinked object.
DeletedPath == <<"/", "(deleted)">>

VARIABLES
    dirent,           \* backing tree: [directory inode, name] -> inode or 0
    nextIno,          \* next inode number the backing filesystem hands out
    rec,              \* struct lo_inode records, by pointer (index); rec[RootRec] is lo.root
    ino_to_ptr,       \* fuse_ino_t -> struct lo_inode * (NULL when absent)
    forgotten_inodes, \* fuse_ino_t -> path (<<>> is the empty string)
    root_dir_inodes,  \* name -> fuse_ino_t (0 when absent)
    root_dir_names,   \* fuse_ino_t -> name ("" when absent)
    pc,               \* each thread's position
    req,              \* each thread's request and locals
    kref,             \* kernel side: entry replies received minus forgets sent, per nodeid
    nfds,             \* number of open O_PATH descriptors of the process
    nreq,             \* requests served so far
    aborted,          \* an assert() failed
    rt,               \* observer of a lookup / forget / lookup round trip
    conn,             \* each side-channel connection: open or closed, times closed
    dirp,             \* the open directory stream (struct lo_dirp), or closed
    hcall,            \* one call of hash_st_ino: its arguments and result
    reply,            \* observer: the request served last by a handler that is
                      \* modelled as one step, and the replies it sent
    mutex             \* lo.mutex: the thread that holds it, or Unlocked

\* State that the lookup, forget, link and creation handlers never touch.
Aux == <<conn, dirp, hcall, reply, mutex>>

vars == <<dirent, nextIno, rec, ino_to_ptr, forgotten_inodes, root_dir_inodes,
          root_dir_names, pc, req, kref, nfds, nreq, aborted, rt, conn, dirp,
          hcall, reply, mutex>>

\* pthread_mutex_init, line 1367: the mutex starts unlocked.
Unlocked == "unlocked"

IdleReq == [op |-> "none", parent |-> 0, name |-> "", ino |-> 0, n |-> 0,
            newfd |-> NoFd, inode |-> NULL, recovered |-> FALSE,
            forgotten |-> <<>>, st_ino |-> 0, ret |-> 0, notified |-> FALSE,
            tag |-> 0, wire |-> 0, nread |-> 0, fds0 |-> 0]

NoRt == [phase |-> 0, parent |-> 0, name |-> "", ino1 |-> 0, st1 |-> 0,
         ino2 |-> 0, st2 |-> 0, evicted |-> FALSE, failed |-> FALSE]

\* A side-channel connection as serve_rpc_conn receives it.
OpenConn == [open |-> TRUE, closes |-> 0]

\* No directory stream is open.
NoDirp == [open |-> FALSE]

\* hash_st_ino has not been called.
NoCall == [dev |-> 0, ino |-> 0, out |-> 0, done |-> FALSE]

\* No observed request yet: op, the Handle it names, the number of replies
\* sent on the request, the errno of its error reply ("" when none) and the
\* descriptors the handler opened and did not close or hand out.
NoReply == [op |-> "none", ino |-> 0, n |-> 0, err |-> "", left |-> 0,
            at |-> 0, forgets |-> <<>>, chs |-> <<>>]

AuxInit ==
    /\ conn = [c \in RpcConns |-> OpenConn]
    /\ dirp = NoDirp
    /\ hcall = NoCall
    /\ reply = NoReply
    /\ mutex = Unlocked

(* --------------------------- backing tree ------------------------------ *)
IsDir(ino) == ino \in {RootIno, DirIno}

RECURSIVE Walk(_, _)
Walk(cur, comps) ==
    IF comps = <<>> THEN cur
    ELSE IF ~IsDir(cur) \/ Head(comps) \notin FsNames THEN NoFd
    ELSE IF dirent[cur, Head(comps)] = 0 THEN NoFd
    ELSE Walk(dirent[cur, Head(comps)], Tail(comps))

\* openat(AT_FDCWD, path, O_PATH | O_NOFOLLOW): the inode the descriptor
\* refers to, or NoFd.
Resolve(path) ==
    IF path = <<>> \/ Head(path) # "/" THEN NoFd ELSE Walk(RootIno, Tail(path))

\* openat(dirfd, name, O_PATH | O_NOFOLLOW).
openat(dirfd, name) ==
    IF dirfd = NoFd \/ ~IsDir(dirfd) THEN NoFd
    ELSE IF name = "." THEN dirfd
    ELSE IF dirent[dirfd, name] = 0 THEN NoFd
    ELSE dirent[dirfd, name]

\* readlink("/proc/self/fd/N") of a descriptor open on inode ino: a current
\* path of the object, or the "(deleted)" path when it has none.
Readlink(ino) ==
    LET ps == {p \in AllPaths : Resolve(p) = ino}
    IN  IF ps = {} THEN {DeletedPath} ELSE ps

(* ------------------------- reading shared state ------------------------ *)
lo_inode(ino) == IF ino = FUSE_ROOT_ID THEN RootRec ELSE ino_to_ptr[ino]

lo_fd(ino) == IF lo_inode(ino) = NULL THEN NoFd ELSE rec[lo_inode(ino)].fd

\* Reading a field through a pointer to a freed record is undefined: the
\* value read is any value of the field's type.
ReadRefcount(p) == IF rec[p].frees > 0 THEN 0..2 ELSE {rec[p].refcount}

ReadNodeid(p) == IF rec[p].frees > 0 THEN Handles ELSE {rec[p].nodeid}

(* ------------------------ the kernel's side ---------------------------- *)
\* The kernel keeps a reference on a node while a request that names it as
\* parent or as its node is in flight; a lookup of "." by node id (export
\* support) names a node the kernel may hold no reference to.
InUse(h) ==
    \E t \in Workers :
        /\ pc[t] # "idle"
        /\ \/ req[t].op \in {"lookup", "mknod", "link", "readdirplus"}
              /\ req[t].name # "."
              /\ req[t].parent = h
           \/ req[t].op = "link" /\ req[t].ino = h

\* An entry reply carrying node id v: the kernel holds one more reference to
\* v; node id 0 (the nodeid field of lo.root, which main never sets) is a
\* negative entry and gives no reference.
KernelTakesRef(v) == IF v \in Handles THEN [kref EXCEPT ![v] = @ + 1] ELSE kref

HasRef(h) == h = FUSE_ROOT_ID \/ kref[h] > 0

Idle(t) == pc[t] = "idle" /\ ~aborted

CanStart(t) == Idle(t) /\ nreq < MaxReqs /\ rt.phase = 0

Finish(t) == /\ pc' = [pc EXCEPT ![t] = "idle"]
             /\ req' = [req EXCEPT ![t] = IdleReq]

(* --------------------- round-trip observer ----------------------------- *)
RtFail(base, r, bad) ==
    IF r.tag # 0 /\ bad THEN [base EXCEPT !.failed = TRUE] ELSE base

RtLookupDone(base, r, ok, e_ino, st) ==
    IF r.tag = 1
    THEN IF ~ok \/ e_ino \notin Handles THEN NoRt ELSE [base EXCEPT !.phase = 1, !.parent = r.parent, !.name = r.name,
                      !.ino1 = e_ino, !.st1 = st]
    ELSE IF r.tag = 3
    THEN [base EXCEPT !.phase = 3, !.ino2 = IF ok THEN e_ino ELSE 0,
                      !.st2 = IF ok THEN st ELSE 0]
    ELSE base

RtForgetDone(base, r, ev) ==
    IF r.tag = 2 THEN [base EXCEPT !.phase = 2, !.evicted = ev] ELSE base

(* ------------------------------ lo_do_lookup --------------------------- *)
\* A variant that treats a lookup of any name under a forgotten parent as
\* recovered.
IsRecovered_AnyName(forgotten, name) == forgotten # <<>>

\* Lines 335-341: recovered is set only on the "." branch of the forgotten
\* test.
IsRecovered(forgotten, name) == forgotten # <<>> /\ name = "."

\* A variant of lo_find that hands out the record without taking a reference.
Acquire_NoIncrement(r) == r

\* lo_find, lines 311-312: refcount++ on a hit.
Acquire(r) == [r EXCEPT !.refcount = @ + 1]

\* A variant that leaves the forgotten entry in place.
EraseRecovered_Never(f, r) == f

\* Lines 377-379: forgotten_inodes.erase(parent) when recovered.
EraseRecovered(f, r) == IF r.recovered THEN [f EXCEPT ![r.parent] = <<>>] ELSE f

\* A variant of the error exit that leaves the descriptor open.
out_err_NoClose(n, newfd) == n

\* out_err, lines 397-401: if (newfd != -1) close(newfd); n counts the open
\* descriptors.
out_err(n, newfd) == IF newfd # NoFd THEN n - 1 ELSE n

\* A variant of the recovery branch that reopens the forgotten path itself
\* whatever the name is.
LookupTarget_IgnoreName(forgotten, parent, name) ==
    IF forgotten # <<>> THEN Resolve(forgotten)
    ELSE openat(lo_fd(parent), name)

\* lo_do_lookup, lines 335-350: the descriptor the lookup opens, by way of
\* the forgotten path of the parent or of the parent's descriptor.
LookupTarget(forgotten, parent, name) ==
    IF forgotten # <<>>
    THEN IF name = "." THEN Resolve(forgotten)
         ELSE Resolve(Append(forgotten, name))
    ELSE openat(lo_fd(parent), name)

\* Lines 334-356: the forgotten-path test, openat and fstatat.
LookupOpenOn(t, r) ==
    LET forgotten == forgotten_inodes[r.parent]
        newfd == LookupTarget(forgotten, r.parent, r.name)
    IN  \E statOk \in BOOLEAN :
          IF newfd = NoFd \/ ~statOk
          THEN /\ Finish(t)
               /\ rt' = RtLookupDone(RtFail(rt, r, newfd # NoFd), r, FALSE, 0, 0)
               /\ nfds' = out_err(IF newfd # NoFd THEN nfds + 1 ELSE nfds, newfd)
          ELSE /\ pc' = [pc EXCEPT ![t] = "lookup_find"]
               /\ req' = [req EXCEPT ![t] =
                            [r EXCEPT !.newfd = newfd, !.st_ino = newfd,
                                      !.forgotten = forgotten,
                                      !.recovered = IsRecovered(forgotten, r.name)]]
               /\ nfds' = nfds + 1
               /\ UNCHANGED rt

Lookup(t) ==
    /\ CanStart(t)
    /\ \E parent \in Handles, name \in Names :
         /\ IF name = "." THEN parent \in {hash_st_ino(RootDev, i) : i \in RootIno..(nextIno - 1)}
            ELSE HasRef(parent)
         /\ LookupOpenOn(t, [IdleReq EXCEPT !.op = "lookup", !.parent = parent, !.name = name])
    /\ nreq' = nreq + 1
    /\ UNCHANGED <<dirent, nextIno, rec, ino_to_ptr, forgotten_inodes,
                   root_dir_inodes, root_dir_names, kref, aborted>>
    /\ UNCHANGED Aux

LookupOpen(t) ==
    /\ pc[t] = "lookup_open" /\ ~aborted
    /\ LookupOpenOn(t, req[t])
    /\ UNCHANGED <<dirent, nextIno, rec, ino_to_ptr, forgotten_inodes,
                   root_dir_inodes, root_dir_names, kref, nreq, aborted>>
    /\ UNCHANGED Aux

\* lo_find (lines 305-318), one critical section, and the close of the
\* duplicate descriptor (lines 359-361).
LookupFind(t) ==
    /\ pc[t] = "lookup_find" /\ ~aborted
    /\ LET ret == ino_to_ptr[hash_st_ino(RootDev, req[t].st_ino)]
       IN  IF ret # NULL
           THEN \E rc \in ReadRefcount(ret) :
                IF rc > 0
                THEN /\ rec' = [rec EXCEPT ![ret] = Acquire([@ EXCEPT !.refcount = rc])]
                     /\ nfds' = nfds - 1
                     /\ req' = [req EXCEPT ![t].inode = ret, ![t].newfd = NoFd]
                     /\ pc' = [pc EXCEPT ![t] = "lookup_reply"]
                     /\ UNCHANGED aborted
                ELSE /\ aborted' = TRUE
                     /\ UNCHANGED <<rec, nfds, req, pc>>
           ELSE /\ pc' = [pc EXCEPT ![t] = "lookup_insert"]
                /\ UNCHANGED <<rec, nfds, req, aborted>>
    /\ UNCHANGED <<dirent, nextIno, ino_to_ptr, forgotten_inodes,
                   root_dir_inodes, root_dir_names, kref, nreq, rt>>
    /\ UNCHANGED Aux

\* Lines 363-380: calloc, the fields, and the critical section that sets
\* nodeid, registers the record and erases the recovered forgotten entry.
LookupInsert(t) ==
    /\ pc[t] = "lookup_insert" /\ ~aborted
    /\ \E allocOk \in BOOLEAN :
         IF ~allocOk
         THEN /\ Finish(t)
              /\ nfds' = out_err(nfds, req[t].newfd)
              /\ rt' = RtLookupDone(RtFail(rt, req[t], TRUE), req[t], FALSE, 0, 0)
              /\ UNCHANGED <<rec, ino_to_ptr, forgotten_inodes>>
         ELSE LET nodeid == IF req[t].recovered THEN req[t].parent
                            ELSE hash_st_ino(RootDev, req[t].st_ino)
                  p == Len(rec) + 1
              IN  /\ rec' = Append(rec, [fd |-> req[t].newfd, ino |-> req[t].st_ino,
                                         dev |-> RootDev, refcount |-> 1,
                                         nodeid |-> nodeid, closes |-> 0, frees |-> 0])
                  /\ ino_to_ptr' = [ino_to_ptr EXCEPT ![nodeid] = p]
                  /\ forgotten_inodes' = EraseRecovered(forgotten_inodes, req[t])
                  /\ req' = [req EXCEPT ![t].inode = p]
                  /\ pc' = [pc EXCEPT ![t] =
                              IF req[t].parent = FUSE_ROOT_ID THEN "lookup_rootidx1"
                              ELSE "lookup_reply"]
                  /\ UNCHANGED <<nfds, rt>>
    /\ UNCHANGED <<dirent, nextIno, root_dir_inodes, root_dir_names, kref,
                   nreq, aborted>>
    /\ UNCHANGED Aux

\* Line 385: root_dir_inodes[name_str] = inode->nodeid, outside the mutex.
LookupRootIdx1(t) ==
    /\ pc[t] = "lookup_rootidx1" /\ ~aborted
    /\ \E v \in ReadNodeid(req[t].inode) :
         root_dir_inodes' = [root_dir_inodes EXCEPT ![req[t].name] = v]
    /\ pc' = [pc EXCEPT ![t] = "lookup_rootidx2"]
    /\ UNCHANGED <<dirent, nextIno, rec, ino_to_ptr, forgotten_inodes,
                   root_dir_names, req, kref, nfds, nreq, aborted, rt>>
    /\ UNCHANGED Aux

\* Line 386: root_dir_names[inode->nodeid] = name_str, outside the mutex.
LookupRootIdx2(t) ==
    /\ pc[t] = "lookup_rootidx2" /\ ~aborted
    /\ \E v \in ReadNodeid(req[t].inode) :
         root_dir_names' = [root_dir_names EXCEPT ![v] = req[t].name]
    /\ pc' = [pc EXCEPT ![t] = "lookup_reply"]
    /\ UNCHANGED <<dirent, nextIno, rec, ino_to_ptr, forgotten_inodes,
                   root_dir_inodes, req, kref, nfds, nreq, aborted, rt>>
    /\ UNCHANGED Aux

\* Line 389 and the caller's fuse_reply_entry: e->ino = inode->nodeid goes
\* to the kernel, which now holds one more reference to that node id.
LookupReply(t) ==
    /\ pc[t] = "lookup_reply" /\ ~aborted
    /\ \E v \in ReadNodeid(req[t].inode) :
         /\ kref' = KernelTakesRef(v)
         /\ rt' = RtLookupDone(rt, req[t], TRUE, v, req[t].st_ino)
    /\ Finish(t)
    /\ UNCHANGED <<dirent, nextIno, rec, ino_to_ptr, forgotten_inodes,
                   root_dir_inodes, root_dir_names, nfds, nreq, aborted>>
    /\ UNCHANGED Aux

(* ------------------------- lo_forget / unref_inode --------------------- *)
\* lo_forget_one, lines 595-600: the unlocked read of the table.
ForgetReadOn(t, r) ==
    IF lo_inode(r.ino) = NULL
    THEN /\ Finish(t)
         /\ rt' = RtForgetDone(rt, r, FALSE)
    ELSE /\ pc' = [pc EXCEPT ![t] = "unref"]
         /\ req' = [req EXCEPT ![t] = [r EXCEPT !.inode = lo_inode(r.ino)]]
         /\ UNCHANGED rt

\* A forget the kernel may send: at most the references it holds, keeping
\* one while the node is in use by a request in flight.
Forget(t) ==
    /\ CanStart(t)
    /\ \E ino \in Handles \ {FUSE_ROOT_ID} :
         \E n \in 1..kref[ino] :
           /\ InUse(ino) => n < kref[ino]
           /\ kref' = [kref EXCEPT ![ino] = @ - n]
           /\ ForgetReadOn(t, [IdleReq EXCEPT !.op = "forget", !.ino = ino, !.n = n])
    /\ nreq' = nreq + 1
    /\ UNCHANGED <<dirent, nextIno, rec, ino_to_ptr, forgotten_inodes,
                   root_dir_inodes, root_dir_names, nfds, aborted>>
    /\ UNCHANGED Aux

\* A forget naming the root: the kernel holds the one reference to the root
\* that the mount gave it, and never one from a reply (a lookup that
\* resolves to the root replies node id 0).
ForgetRoot(t) ==
    /\ CanStart(t)
    /\ \E n \in 1..kref[FUSE_ROOT_ID] :
         /\ kref' = [kref EXCEPT ![FUSE_ROOT_ID] = @ - n]
         /\ ForgetReadOn(t, [IdleReq EXCEPT !.op = "forget",
                                            !.ino = FUSE_ROOT_ID, !.n = n])
    /\ nreq' = nreq + 1
    /\ UNCHANGED <<dirent, nextIno, rec, ino_to_ptr, forgotten_inodes,
                   root_dir_inodes, root_dir_names, nfds, aborted>>
    /\ UNCHANGED Aux

ForgetRead(t) ==
    /\ pc[t] = "forget_read" /\ ~aborted
    /\ ForgetReadOn(t, req[t])
    /\ UNCHANGED <<dirent, nextIno, rec, ino_to_ptr, forgotten_inodes,
                   root_dir_inodes, root_dir_names, kref, nfds, nreq, aborted>>
    /\ UNCHANGED Aux

\* A variant of the eviction that leaves the Handle in the table.
EraseNodeid_Never(tbl, nodeid) == tbl

\* unref_inode, line 582: ino_to_ptr.erase(inode->nodeid).
EraseNodeid(tbl, nodeid) == [tbl EXCEPT ![nodeid] = NULL]

\* A build in which the assertion of unref_inode is compiled out.
unref_assert_Off(rc, n) == TRUE

\* unref_inode, line 559: assert(inode->refcount >= n).
unref_assert(rc, n) == rc >= n

\* unref_inode, line 561: inode->refcount -= n on the unsigned 64-bit
\* field, with 6-bit words for 64-bit ones.
Sub64(rc, n) == (rc - n) % 64

\* unref_inode, lines 558-584 and 589: the critical section.
Unref(t) ==
    /\ pc[t] = "unref" /\ ~aborted
    /\ LET p == req[t].inode
           n == req[t].n
       IN  \E rc \in ReadRefcount(p), nodeid \in ReadNodeid(p) :
             IF ~unref_assert(rc, n)
             THEN /\ aborted' = TRUE
                  /\ UNCHANGED <<rec, forgotten_inodes, root_dir_inodes,
                                 root_dir_names, ino_to_ptr, pc, req, rt>>
             ELSE IF Sub64(rc, n) # 0
             THEN /\ rec' = [rec EXCEPT ![p].refcount = Sub64(rc, n)]
                  /\ Finish(t)
                  /\ rt' = RtForgetDone(rt, req[t], FALSE)
                  /\ UNCHANGED <<forgotten_inodes, root_dir_inodes,
                                 root_dir_names, ino_to_ptr, aborted>>
             ELSE \E res \in BOOLEAN, buf \in Readlink(rec[p].fd) :
                  LET root_dir_name == root_dir_names[nodeid]
                  IN  /\ rec' = [rec EXCEPT ![p].refcount = 0]
                      /\ forgotten_inodes' =
                            IF res THEN [forgotten_inodes EXCEPT ![nodeid] = buf]
                            ELSE forgotten_inodes
                      /\ root_dir_inodes' =
                            IF root_dir_name # ""
                            THEN [root_dir_inodes EXCEPT ![root_dir_name] = 0]
                            ELSE root_dir_inodes
                      /\ root_dir_names' =
                            IF root_dir_name # ""
                            THEN [root_dir_names EXCEPT ![nodeid] = ""]
                            ELSE root_dir_names
                      /\ ino_to_ptr' = EraseNodeid(ino_to_ptr, nodeid)
                      /\ pc' = [pc EXCEPT ![t] = "unref_free"]
                      /\ rt' = RtFail(rt, req[t], ~res)
                      /\ UNCHANGED <<req, aborted>>
    /\ UNCHANGED <<dirent, nextIno, kref, nfds, nreq>>
    /\ UNCHANGED Aux

\* unref_inode, lines 585-586: close(inode->fd); free(inode), after unlock.
UnrefFree(t) ==
    /\ pc[t] = "unref_free" /\ ~aborted
    /\ LET p == req[t].inode
       IN  /\ rec' = [rec EXCEPT ![p].closes = @ + 1, ![p].frees = @ + 1]
           /\ nfds' = IF rec[p].closes = 0 THEN nfds - 1 ELSE nfds
    /\ rt' = RtForgetDone(rt, req[t], TRUE)
    /\ Finish(t)
    /\ UNCHANGED <<dirent, nextIno, ino_to_ptr, forgotten_inodes,
                   root_dir_inodes, root_dir_names, kref, nreq, aborted>>
    /\ UNCHANGED Aux

(* ----------------------- lo_mknod_symlink, lo_unlink ------------------- *)
\* lo_mknod_symlink, lines 426-437: mknod_wrapper on the parent's
\* descriptor; on success lo_do_lookup follows.
Mknod(t) ==
    /\ CanStart(t)
    /\ \E parent \in Handles :
         /\ HasRef(parent)
         /\ lo_inode(parent) # NULL
         /\ IsDir(lo_fd(parent))
         /\ dirent[lo_fd(parent), "f"] = 0
         /\ dirent' = [dirent EXCEPT ![lo_fd(parent), "f"] = nextIno]
         /\ nextIno' = nextIno + 1
         /\ pc' = [pc EXCEPT ![t] = "lookup_open"]
         /\ req' = [req EXCEPT ![t] =
                      [IdleReq EXCEPT !.op = "mknod", !.parent = parent, !.name = "f"]]
    /\ nreq' = nreq + 1
    /\ UNCHANGED <<rec, ino_to_ptr, forgotten_inodes, root_dir_inodes,
                   root_dir_names, kref, nfds, aborted, rt>>
    /\ UNCHANGED Aux

\* lo_unlink, lines 544-551: unlinkat on the parent's descriptor.
Unlink(t) ==
    /\ CanStart(t)
    /\ \E parent \in Handles :
         /\ HasRef(parent)
         /\ IsDir(lo_fd(parent))
         /\ dirent[lo_fd(parent), "f"] # 0
         /\ dirent' = [dirent EXCEPT ![lo_fd(parent), "f"] = 0]
    /\ nreq' = nreq + 1
    /\ UNCHANGED <<nextIno, rec, ino_to_ptr, forgotten_inodes, root_dir_inodes,
                   root_dir_names, pc, req, kref, nfds, aborted, rt>>
    /\ UNCHANGED Aux

(* -------------------------------- lo_link ------------------------------ *)
\* Lines 477-498: the unlocked read of the table, linkat and fstatat.
Link(t) ==
    /\ CanStart(t)
    /\ \E ino \in Handles, parent \in Handles :
         /\ HasRef(ino) /\ HasRef(parent)
         /\ lo_inode(ino) # NULL
         /\ ~IsDir(lo_fd(ino))
         /\ IsDir(lo_fd(parent))
         /\ dirent[lo_fd(parent), "f"] = 0
         /\ dirent' = [dirent EXCEPT ![lo_fd(parent), "f"] = lo_fd(ino)]
         /\ pc' = [pc EXCEPT ![t] = "link_ref"]
         /\ req' = [req EXCEPT ![t] =
                      [IdleReq EXCEPT !.op = "link", !.ino = ino, !.parent = parent,
                                      !.name = "f", !.inode = lo_inode(ino)]]
    /\ nreq' = nreq + 1
    /\ UNCHANGED <<nextIno, rec, ino_to_ptr, forgotten_inodes, root_dir_inodes,
                   root_dir_names, kref, nfds, aborted, rt>>
    /\ UNCHANGED Aux

\* Lines 500-510: inode->refcount++ under the mutex, e.ino = inode->nodeid,
\* fuse_reply_entry.
LinkRef(t) ==
    /\ pc[t] = "link_ref" /\ ~aborted
    /\ \E rc \in ReadRefcount(req[t].inode), v \in ReadNodeid(req[t].inode) :
         /\ rec' = [rec EXCEPT ![req[t].inode].refcount = rc + 1]
         /\ kref' = KernelTakesRef(v)
    /\ Finish(t)
    /\ UNCHANGED <<dirent, nextIno, ino_to_ptr, forgotten_inodes, root_dir_inodes,
                   root_dir_names, nfds, nreq, aborted, rt>>
    /\ UNCHANGED Aux

(* ------------------ the delete-notification side channel --------------- *)
\* A variant that goes on to the invalidation call whatever the index holds.
RpcAfterFind_Always(ino) == "rpc_notify"

\* rpc_handle_delete, lines 1262-1265: return -ECHILD when the name is not
\* in root_dir_inodes.
RpcAfterFind(ino) == IF ino = 0 THEN "rpc_write" ELSE "rpc_notify"

\* What fuse_lowlevel_notify_delete returns: 0, or a negative errno when the
\* kernel has no such entry.
NotifyRets == {0, -2}

\* A variant of the index access that resets the entry it reads.
MapIndex_Resets(m, k) == [m EXCEPT ![k] = 0]

\* std::map operator[], line 1261: a name that has no entry gets one with
\* the value 0, which every reader takes for "not registered"; an entry
\* that exists is left as it is.
MapIndex(m, k) == IF m[k] = 0 THEN [m EXCEPT ![k] = 0] ELSE m

\* serve_rpc_conn reads one request; rpc_handle_delete, lines 1260-1265,
\* resolves the name in root_dir_inodes without taking lo->mutex.
RpcRead(c) ==
    /\ CanStart(c)
    /\ \E path \in FsNames :
         LET ino == root_dir_inodes[path]
         IN  /\ req' = [req EXCEPT ![c] =
                          [IdleReq EXCEPT !.op = "delete", !.name = path, !.ino = ino,
                                          !.ret = IF ino = 0 THEN -ECHILD ELSE 0]]
             /\ pc' = [pc EXCEPT ![c] = RpcAfterFind(ino)]
             /\ root_dir_inodes' = MapIndex(root_dir_inodes, path)
    /\ nreq' = nreq + 1
    /\ UNCHANGED <<dirent, nextIno, rec, ino_to_ptr, forgotten_inodes,
                   root_dir_names, kref, nfds, aborted, rt>>
    /\ UNCHANGED Aux

\* Lines 1268-1275: fuse_lowlevel_notify_delete(se, FUSE_ROOT_ID, ino, name).
RpcNotify(c) ==
    /\ pc[c] = "rpc_notify" /\ ~aborted
    /\ \E ret \in NotifyRets :
         req' = [req EXCEPT ![c].ret = ret, ![c].notified = TRUE]
    /\ pc' = [pc EXCEPT ![c] = "rpc_write"]
    /\ UNCHANGED <<dirent, nextIno, rec, ino_to_ptr, forgotten_inodes,
                   root_dir_inodes, root_dir_names, kref, nfds, nreq, aborted, rt>>
    /\ UNCHANGED Aux

\* A variant that ends the loop after a non-zero result.
RpcAfterReply_BreakOnError(ret) == IF ret # 0 THEN "rpc_close" ELSE "idle"

\* serve_rpc_conn, lines 1303-1313: a failed request is logged, its result
\* written, and the loop goes on to the next read.
RpcAfterReply(ret) == "idle"

\* serve_rpc_conn, line 1308: the 4-byte result code goes back to the peer.
RpcWrite(c) ==
    /\ pc[c] = "rpc_write" /\ ~aborted
    /\ pc' = [pc EXCEPT ![c] = RpcAfterReply(req[c].ret)]
    /\ req' = [req EXCEPT ![c] = IdleReq]
    /\ UNCHANGED <<dirent, nextIno, rec, ino_to_ptr, forgotten_inodes,
                   root_dir_inodes, root_dir_names, kref, nfds, nreq, aborted, rt>>
    /\ UNCHANGED Aux

\* serve_rpc_conn, lines 1308-1312: the write of the result code fails or
\* is short; the loop ends.
RpcWriteFail(c) ==
    /\ pc[c] = "rpc_write" /\ ~aborted
    /\ pc' = [pc EXCEPT ![c] = "rpc_close"]
    /\ req' = [req EXCEPT ![c].op = "write_failed"]
    /\ UNCHANGED <<dirent, nextIno, rec, ino_to_ptr, forgotten_inodes,
                   root_dir_inodes, root_dir_names, kref, nfds, nreq, aborted, rt>>
    /\ UNCHANGED Aux

\* serve_rpc_conn, lines 1282-1284: read returns 0 at a request boundary.
RpcReadEof(c) ==
    /\ Idle(c)
    /\ pc' = [pc EXCEPT ![c] = "rpc_close"]
    /\ req' = [req EXCEPT ![c] = [IdleReq EXCEPT !.op = "eof"]]
    /\ UNCHANGED <<dirent, nextIno, rec, ino_to_ptr, forgotten_inodes,
                   root_dir_inodes, root_dir_names, kref, nfds, nreq, aborted, rt>>
    /\ UNCHANGED Aux

\* A variant that answers an oversized length like an unknown name.
RpcOnOversized_Reply == "rpc_write"

\* serve_rpc_conn, lines 1290-1293: len > PATH_MAX - 1 is logged and the
\* loop ends.
RpcOnOversized == "rpc_close"

\* The malformed requests: a short length prefix (lines 1285-1288), an
\* oversized length (lines 1290-1293), a short name (lines 1295-1299).
Malformed == {"short_len", "oversized", "short_path"}

RpcReadBad(c) ==
    /\ Idle(c)
    /\ \E kind \in Malformed :
         /\ pc' = [pc EXCEPT ![c] = IF kind = "oversized" THEN RpcOnOversized
                                    ELSE "rpc_close"]
         /\ req' = [req EXCEPT ![c] = [IdleReq EXCEPT !.op = kind, !.ret = -ECHILD]]
    /\ UNCHANGED <<dirent, nextIno, rec, ino_to_ptr, forgotten_inodes,
                   root_dir_inodes, root_dir_names, kref, nfds, nreq, aborted, rt>>
    /\ UNCHANGED Aux

\* serve_rpc_conn, line 1315: close(conn_fd) after the loop.
RpcClose(c) ==
    /\ pc[c] = "rpc_close" /\ ~aborted
    /\ conn' = [conn EXCEPT ![c] = [open |-> FALSE, closes |-> @.closes + 1]]
    /\ pc' = [pc EXCEPT ![c] = "rpc_done"]
    /\ UNCHANGED <<dirent, nextIno, rec, ino_to_ptr, forgotten_inodes,
                   root_dir_inodes, root_dir_names, req, kref, nfds, nreq, aborted, rt,
                   dirp, hcall, mutex, reply>>

(* ------------------------------- the system ---------------------------- *)
\* main, lines 1367-1447: the root record, refcount 2, registered under the
\* hash of the root's (dev, ino), which is FUSE_ROOT_ID.
Init ==
    /\ dirent = [x \in {RootIno, DirIno} \X FsNames |->
                   IF x = <<RootIno, "d">> THEN DirIno
                   ELSE IF x = <<DirIno, "f">> THEN FirstFileIno
                   ELSE 0]
    /\ nextIno = FirstFileIno + 1
    /\ rec = <<[fd |-> RootIno, ino |-> 0, dev |-> 0, refcount |-> 2,
                nodeid |-> 0, closes |-> 0, frees |-> 0]>>
    /\ ino_to_ptr = [h \in Handles |->
                       IF h = hash_st_ino(RootDev, RootIno) THEN RootRec ELSE NULL]
    /\ forgotten_inodes = [h \in Handles |-> <<>>]
    /\ root_dir_inodes = [n \in Names |-> 0]
    /\ root_dir_names = [h \in Handles |-> ""]
    /\ pc = [t \in Threads |-> "idle"]
    /\ req = [t \in Threads |-> IdleReq]
    /\ kref = [h \in Handles |-> IF h = FUSE_ROOT_ID THEN 1 ELSE 0]
    /\ nfds = 1
    /\ nreq = 0
    /\ aborted = FALSE
    /\ rt = NoRt
    /\ AuxInit

Next ==
    \/ \E t \in Workers :
         \/ Lookup(t)
         \/ LookupFind(t)
         \/ LookupInsert(t)
         \/ LookupRootIdx1(t)
         \/ LookupRootIdx2(t)
         \/ LookupReply(t)
         \/ Forget(t)
         \/ Unref(t)
         \/ UnrefFree(t)
         \/ Mknod(t)
         \/ LookupOpen(t)
         \/ Unlink(t)
         \/ Link(t)
         \/ LinkRef(t)
    \/ \E c \in RpcConns :
         \/ RpcRead(c)
         \/ RpcNotify(c)
         \/ RpcWrite(c)

Spec == Init /\ [][Next]_vars

(* ------------------- one worker: sequential behaviours ----------------- *)
\* lo_lookup, first request of a round trip.
RtLookup1(t) ==
    /\ CanStart(t)
    /\ \E parent \in Handles, name \in Names :
         /\ IF name = "." THEN parent \in {hash_st_ino(RootDev, i) : i \in RootIno..(nextIno - 1)}
            ELSE HasRef(parent)
         /\ LookupOpenOn(t, [IdleReq EXCEPT !.op = "lookup", !.parent = parent,
                                            !.name = name, !.tag = 1])
    /\ nreq' = nreq + 1
    /\ UNCHANGED <<dirent, nextIno, rec, ino_to_ptr, forgotten_inodes,
                   root_dir_inodes, root_dir_names, kref, aborted>>
    /\ UNCHANGED Aux

\* lo_forget of the Handle the first lookup returned, count 1.
RtForget(t) ==
    /\ Idle(t) /\ rt.phase = 1
    /\ kref[rt.ino1] > 0
    /\ kref' = [kref EXCEPT ![rt.ino1] = @ - 1]
    /\ ForgetReadOn(t, [IdleReq EXCEPT !.op = "forget", !.ino = rt.ino1, !.n = 1,
                                       !.tag = 2])
    /\ UNCHANGED <<dirent, nextIno, rec, ino_to_ptr, forgotten_inodes,
                   root_dir_inodes, root_dir_names, nfds, nreq, aborted>>
    /\ UNCHANGED Aux

\* lo_lookup, the same parent and name again.
RtLookup2(t) ==
    /\ Idle(t) /\ rt.phase = 2
    /\ LookupOpenOn(t, [IdleReq EXCEPT !.op = "lookup", !.parent = rt.parent,
                                       !.name = rt.name, !.tag = 3])
    /\ UNCHANGED <<dirent, nextIno, rec, ino_to_ptr, forgotten_inodes,
                   root_dir_inodes, root_dir_names, kref, nreq, aborted>>
    /\ UNCHANGED Aux

SeqWorker == "w1"

SeqNext ==
    \/ Lookup(SeqWorker)
    \/ LookupFind(SeqWorker)
    \/ LookupInsert(SeqWorker)
    \/ LookupRootIdx1(SeqWorker)
    \/ LookupRootIdx2(SeqWorker)
    \/ LookupReply(SeqWorker)
    \/ Forget(SeqWorker)
    \/ ForgetRoot(SeqWorker)
    \/ Unref(SeqWorker)
    \/ UnrefFree(SeqWorker)
    \/ Mknod(SeqWorker)
    \/ LookupOpen(SeqWorker)
    \/ Unlink(SeqWorker)
    \/ Link(SeqWorker)
    \/ LinkRef(SeqWorker)
    \/ RtLookup1(SeqWorker)
    \/ RtForget(SeqWorker)
    \/ RtLookup2(SeqWorker)

SpecSeq == Init /\ [][SeqNext]_vars

(* --------------------------- directory streams ------------------------- *)
\* Lines 688-692.
is_dot_or_dotdot(name) == name \in {".", ".."}

\* The entries readdir() delivers for a stream opened on directory dir, as
\* of fdopendir: ".", "..", then the names present. The d_off of the i-th
\* entry is i, and seekdir(i) continues after it.
DirStream(dir) ==
    <<[name |-> ".", ino |-> dir], [name |-> "..", ino |-> RootIno]>>
    \o (IF dirent[dir, "d"] # 0 THEN <<[name |-> "d", ino |-> dirent[dir, "d"]]>>
        ELSE <<>>)
    \o (IF dirent[dir, "f"] # 0 THEN <<[name |-> "f", ino |-> dirent[dir, "f"]]>>
        ELSE <<>>)

\* fuse_add_direntry / fuse_add_direntry_plus: the size the entry needs, a
\* header (larger with attributes) and the name.
fuse_add_direntry(name, plus) ==
    (IF plus THEN 2 ELSE 1) + (IF name = ".." THEN 2 ELSE 1)

\* The buffer sizes of a readdir request.
BufSizes == {1, 4, 8, 14}

\* The readdir requests served on one open stream.
MaxReads == 2

\* The errno of a failing step: ENOMEM from calloc, another value from
\* readdir() and fstatat.
ErrnoOf(fail) == IF fail \in {"buf", "alloc"} THEN ENOMEM ELSE ENOMEM + 1

\* The failures a call can meet: none, calloc of the buffer, readdir() when
\* reading the entry after position at - 1, or the lookup of entry at (its
\* fstatat or its calloc).
Fails(stream, plus) ==
    {[kind |-> "none", at |-> 0], [kind |-> "buf", at |-> 0]}
    \cup {[kind |-> "readdir", at |-> a] : a \in 1..(Len(stream) + 1)}
    \cup {[kind |-> k, at |-> a] :
            k \in (IF plus THEN {"stat", "alloc"} ELSE {}),
            a \in {i \in 1..Len(stream) : ~is_dot_or_dotdot(stream[i].name)}}

\* The state lo_do_lookup and unref_inode work on.
Tables ==
    [rec |-> rec, ino_to_ptr |-> ino_to_ptr,
     forgotten_inodes |-> forgotten_inodes,
     root_dir_inodes |-> root_dir_inodes, root_dir_names |-> root_dir_names,
     nfds |-> nfds]

\* lo_do_lookup, lines 320-402, as one call on one dispatch thread; fail
\* names the step that fails, if any, and errno its error.
lo_do_lookup(T, parent, name, fail, errno) ==
    LET forgotten == T.forgotten_inodes[parent]
        pp == IF parent = FUSE_ROOT_ID THEN RootRec ELSE T.ino_to_ptr[parent]
        pfd == IF pp = NULL THEN NoFd ELSE T.rec[pp].fd
        newfd == IF forgotten # <<>>
                 THEN IF name = "." THEN Resolve(forgotten)
                      ELSE Resolve(Append(forgotten, name))
                 ELSE openat(pfd, name)
        recovered == IsRecovered(forgotten, name)
        ret == T.ino_to_ptr[hash_st_ino(RootDev, newfd)]
        nodeid == IF recovered THEN parent ELSE hash_st_ino(RootDev, newfd)
        p == Len(T.rec) + 1
    IN  IF newfd = NoFd \/ fail = "stat"
        THEN [err |-> errno, ino |-> 0, T |-> T]
        ELSE IF ret # NULL
        THEN [err |-> 0, ino |-> T.rec[ret].nodeid,
              T |-> [T EXCEPT !.rec[ret] = Acquire(@)]]
        ELSE IF fail = "alloc"
        THEN [err |-> errno, ino |-> 0, T |-> T]
        ELSE [err |-> 0, ino |-> nodeid,
              T |-> [T EXCEPT
                       !.rec = Append(@, [fd |-> newfd, ino |-> newfd,
                                          dev |-> RootDev, refcount |-> 1,
                                          nodeid |-> nodeid, closes |-> 0,
                                          frees |-> 0]),
                       !.ino_to_ptr[nodeid] = p,
                       !.forgotten_inodes =
                           EraseRecovered(@, [recovered |-> recovered,
                                              parent |-> parent]),
                       !.root_dir_inodes =
                           IF parent = FUSE_ROOT_ID THEN [@ EXCEPT ![name] = nodeid]
                           ELSE @,
                       !.root_dir_names =
                           IF parent = FUSE_ROOT_ID THEN [@ EXCEPT ![nodeid] = name]
                           ELSE @,
                       !.nfds = @ + 1]]

\* unref_inode, lines 553-591, as one call on one dispatch thread.
unref_inode(T, p, n, res, buf) ==
    IF T.rec[p].refcount - n # 0
    THEN [T EXCEPT !.rec[p].refcount = @ - n]
    ELSE LET nodeid == T.rec[p].nodeid
             root_dir_name == T.root_dir_names[nodeid]
         IN  [T EXCEPT
                !.rec[p] = [@ EXCEPT !.refcount = 0, !.closes = @ + 1,
                                     !.frees = @ + 1],
                !.forgotten_inodes = IF res THEN [@ EXCEPT ![nodeid] = buf] ELSE @,
                !.root_dir_inodes =
                    IF root_dir_name # "" THEN [@ EXCEPT ![root_dir_name] = 0]
                    ELSE @,
                !.root_dir_names =
                    IF root_dir_name # "" THEN [@ EXCEPT ![nodeid] = ""] ELSE @,
                !.ino_to_ptr = EraseNodeid(@, nodeid),
                !.nfds = @ - 1]

\* lo_forget_one, lines 593-610.
lo_forget_one(T, ino, n, res, buf) ==
    LET p == IF ino = FUSE_ROOT_ID THEN RootRec ELSE T.ino_to_ptr[ino]
    IN  IF p = NULL THEN T ELSE unref_inode(T, p, n, res, buf)

\* A variant that forgets the entry read from the stream when it did not
\* fit.
KeepEntry_Dropped(e) == 0

\* Lines 766-770: the break on entsize > rem leaves d->entry in place.
KeepEntry(e) == e

\* A variant of the rollback that gives nothing back.
RollbackCount_None == 1 - 1

\* Line 768: lo_forget_one(req, entry_ino, 1).
RollbackCount == 1

\* A variant that replies the error whenever there is one.
ReplyErr_Always(err, rem, size) == err # 0

\* Line 786: if (err && rem == size) fuse_reply_err.
ReplyErr(err, rem, size) == err # 0 /\ rem = size

\* A variant that repositions the stream on every call.
NeedSeek_Always(offset, d_offset) == TRUE

\* Line 719: if (offset != d->offset).
NeedSeek(offset, d_offset) == offset # d_offset

\* The loop of lo_do_readdir, lines 724-778. s holds d->entry (an index into
\* the stream, 0 for NULL), d->offset, the position of d->dp, rem, the
\* entries placed, the tables, err, the node id to roll back and the number
\* of calls of readdir(); c holds the call's constants.
RECURSIVE ReaddirLoop(_, _)
ReaddirLoop(s, c) ==
    IF s.entry = 0 /\ c.fail.kind = "readdir" /\ c.fail.at = s.pos + 1
    THEN [s EXCEPT !.err = ErrnoOf(c.fail.kind), !.reads = @ + 1]
    ELSE IF s.entry = 0 /\ s.pos >= Len(c.stream)
    THEN [s EXCEPT !.reads = @ + 1]
    ELSE LET i == IF s.entry = 0 THEN s.pos + 1 ELSE s.entry
             pos == IF s.entry = 0 THEN s.pos + 1 ELSE s.pos
             reads == IF s.entry = 0 THEN s.reads + 1 ELSE s.reads
             nextoff == i
             name == c.stream[i].name
             look == c.plus /\ ~is_dot_or_dotdot(name)
             lk == IF look
                   THEN lo_do_lookup(s.T, c.ino, name,
                                     IF c.fail.at = i THEN c.fail.kind ELSE "none",
                                     ErrnoOf(c.fail.kind))
                   ELSE [err |-> 0, ino |-> 0, T |-> s.T]
             entry_ino == lk.ino
             entsize == fuse_add_direntry(name, c.plus)
         IN  IF lk.err # 0
             THEN [s EXCEPT !.entry = i, !.pos = pos, !.err = lk.err,
                            !.reads = reads]
             ELSE IF entsize > s.rem
             THEN [s EXCEPT !.entry = KeepEntry(i), !.pos = pos, !.T = lk.T,
                            !.rollback = entry_ino, !.reads = reads]
             ELSE ReaddirLoop(
                    [s EXCEPT !.entry = 0, !.pos = pos, !.offset = nextoff,
                              !.rem = @ - entsize, !.T = lk.T,
                              !.reads = reads,
                              !.page = Append(@, [name |-> name,
                                                  ino |-> c.stream[i].ino,
                                                  off |-> nextoff,
                                                  nodeid |-> entry_ino])], c)

\* The references the kernel takes from a readdirplus page.
RECURSIVE PageRefs(_, _)
PageRefs(k, page) ==
    IF page = <<>> THEN k
    ELSE PageRefs(IF Head(page).nodeid \in Handles
                  THEN [k EXCEPT ![Head(page).nodeid] = @ + 1] ELSE k,
                  Tail(page))

\* lo_opendir, lines 684-690: the error exit closes the descriptor if the
\* cursor was allocated and the descriptor is open; n counts the open
\* descriptors.
opendir_out_err(n, d, fd) == IF d /\ fd # NoFd THEN n - 1 ELSE n

\* lo_opendir, lines 656-691. fail names the call that fails, if any:
\* calloc of the cursor, openat, or fdopendir.
Opendir(t) ==
    /\ CanStart(t)
    /\ ~dirp.open
    /\ \E ino \in Handles, fail \in {"none", "alloc", "fdopendir"} :
         LET d == fail # "alloc"
             fd == IF d THEN openat(lo_fd(ino), ".") ELSE NoFd
             n1 == IF fd # NoFd THEN nfds + 1 ELSE nfds
             isdir == fd # NoFd /\ IsDir(fd)
         IN  /\ HasRef(ino)
             /\ lo_inode(ino) # NULL
             /\ IF d /\ isdir /\ fail = "none"
                THEN /\ dirp' = [open |-> TRUE, ino |-> ino,
                                 stream |-> DirStream(fd),
                                 pos |-> 0, entry |-> 0, offset |-> 0,
                                 base |-> 0, listed |-> <<>>, nread |-> 0,
                                 last |-> <<>>]
                     /\ nfds' = n1
                     /\ reply' = [NoReply EXCEPT !.op = "opendir", !.ino = ino,
                                                 !.n = 1, !.at = nreq + 1]
                ELSE /\ dirp' = dirp
                     /\ nfds' = opendir_out_err(n1, d, fd)
                     /\ reply' = [NoReply EXCEPT
                                    !.op = "opendir", !.ino = ino, !.n = 1,
                                    !.err = IF d THEN "errno" ELSE "ENOMEM",
                                    !.left = nfds' - nfds, !.at = nreq + 1]
    /\ nreq' = nreq + 1
    /\ UNCHANGED <<dirent, nextIno, rec, ino_to_ptr, forgotten_inodes,
                   root_dir_inodes, root_dir_names, pc, req, kref, aborted, rt,
                   conn, hcall, mutex>>

\* lo_readdir / lo_readdirplus: lo_do_readdir, lines 701-791.
Readdir(t) ==
    /\ CanStart(t)
    /\ dirp.open /\ dirp.nread < MaxReads
    /\ \E size \in BufSizes, offset \in {0, dirp.offset}, plus \in BOOLEAN :
       \E fail \in Fails(dirp.stream, plus) :
         LET seek == NeedSeek(offset, dirp.offset)
             c == [ino |-> dirp.ino, stream |-> dirp.stream, plus |-> plus,
                   fail |-> fail]
             s0 == [entry |-> IF seek THEN 0 ELSE dirp.entry,
                    offset |-> offset,
                    pos |-> IF seek THEN offset ELSE dirp.pos,
                    rem |-> size, page |-> <<>>, T |-> Tables, err |-> 0,
                    rollback |-> 0, reads |-> 0]
             s == IF fail.kind = "buf"
                  THEN [entry |-> dirp.entry, offset |-> dirp.offset,
                        pos |-> dirp.pos, rem |-> size, page |-> <<>>,
                        T |-> Tables, err |-> ENOMEM, rollback |-> 0,
                        reads |-> 0]
                  ELSE ReaddirLoop(s0, c)
             rp == IF s.rollback = FUSE_ROOT_ID THEN RootRec
                   ELSE IF s.rollback = 0 THEN NULL
                   ELSE s.T.ino_to_ptr[s.rollback]
             error == ReplyErr(s.err, s.rem, size)
         IN  \E res \in (IF rp = NULL THEN {TRUE} ELSE BOOLEAN),
                buf \in (IF rp = NULL THEN {DeletedPath}
                         ELSE Readlink(s.T.rec[rp].fd)) :
             LET T == IF s.rollback # 0
                      THEN lo_forget_one(s.T, s.rollback, RollbackCount, res, buf)
                      ELSE s.T
                 cont == offset = dirp.base + Len(dirp.listed)
             IN  /\ rec' = T.rec
                 /\ ino_to_ptr' = T.ino_to_ptr
                 /\ forgotten_inodes' = T.forgotten_inodes
                 /\ root_dir_inodes' = T.root_dir_inodes
                 /\ root_dir_names' = T.root_dir_names
                 /\ nfds' = T.nfds
                 /\ kref' = IF error THEN kref ELSE PageRefs(kref, s.page)
                 /\ dirp' = [dirp EXCEPT
                               !.entry = s.entry, !.offset = s.offset,
                               !.pos = s.pos,
                               !.base = IF error \/ cont THEN @ ELSE offset,
                               !.listed = IF error THEN @
                                          ELSE IF cont THEN @ \o s.page
                                          ELSE s.page,
                               !.nread = @ + 1,
                               !.last = [size |-> size, offset |-> offset,
                                         plus |-> plus, rem |-> s.rem,
                                         err |-> s.err, error |-> error,
                                         page |-> s.page,
                                         rollback |-> s.rollback,
                                         buf |-> fail.kind # "buf",
                                         replies |->
                                            IF s.rollback # 0 /\ rp = NULL
                                            THEN 2 ELSE 1,
                                         seek |-> fail.kind # "buf" /\ seek,
                                         reads |-> s.reads]]
    /\ nreq' = nreq + 1
    /\ UNCHANGED <<dirent, nextIno, pc, req, aborted, rt, conn, hcall, mutex, reply>>

\* lo_releasedir, lines 807-813.
Releasedir(t) ==
    /\ CanStart(t)
    /\ dirp.open
    /\ dirp' = NoDirp
    /\ nfds' = nfds - 1
    /\ nreq' = nreq + 1
    /\ UNCHANGED <<dirent, nextIno, rec, ino_to_ptr, forgotten_inodes,
                   root_dir_inodes, root_dir_names, pc, req, kref, aborted, rt,
                   conn, hcall, mutex, reply>>

NextDir ==
    \/ Lookup(SeqWorker)
    \/ LookupFind(SeqWorker)
    \/ LookupInsert(SeqWorker)
    \/ LookupRootIdx1(SeqWorker)
    \/ LookupRootIdx2(SeqWorker)
    \/ LookupReply(SeqWorker)
    \/ Mknod(SeqWorker)
    \/ LookupOpen(SeqWorker)
    \/ Opendir(SeqWorker)
    \/ Readdir(SeqWorker)
    \/ Releasedir(SeqWorker)

SpecDir == Init /\ [][NextDir]_vars

(* ------------------------- hash_st_ino by itself ---------------------- *)
\* The (device, inode) pairs hash_st_ino is called with.
HashDevs == 0..3
HashInos == 0..31

HashCall ==
    /\ ~hcall.done
    /\ \E dev \in HashDevs, ino \in HashInos :
         hcall' = [dev |-> dev, ino |-> ino, out |-> hash_st_ino(dev, ino),
                   done |-> TRUE]
    /\ UNCHANGED <<dirent, nextIno, rec, ino_to_ptr, forgotten_inodes,
                   root_dir_inodes, root_dir_names, pc, req, kref, nfds, nreq,
                   aborted, rt, conn, dirp, reply, mutex>>

SpecHash == Init /\ [][HashCall]_vars

(* ------------- the side channel beside one dispatch thread ------------- *)
NextRpc ==
    \/ Lookup(SeqWorker)
    \/ LookupFind(SeqWorker)
    \/ LookupInsert(SeqWorker)
    \/ LookupRootIdx1(SeqWorker)
    \/ LookupRootIdx2(SeqWorker)
    \/ LookupReply(SeqWorker)
    \/ Forget(SeqWorker)
    \/ Unref(SeqWorker)
    \/ UnrefFree(SeqWorker)
    \/ \E c \in RpcConns :
         \/ RpcRead(c)
         \/ RpcNotify(c)
         \/ RpcWrite(c)
         \/ RpcWriteFail(c)
         \/ RpcReadEof(c)
         \/ RpcReadBad(c)
         \/ RpcClose(c)

SpecRpc == Init /\ [][NextRpc]_vars

(* ------------- forget racing a lookup of the same object --------------- *)
\* The record of the file in the scenario, and the directory's record.
C4Dir == RootRec + 1
C4Rec == RootRec + 2

C4Variants == {"dirfile", "rootfile", "link_via_root", "link_via_dir"}

\* The state in which forget(H1, 1) and lookup(parent, "f") have both been
\* received and neither has touched the table: "d" is known as Hd, the file
\* as H1 with refcount 1.
\*   dirfile:       /d/f, known through Hd, looked up through Hd
\*   rootfile:      /f, known through the root, looked up through the root
\*   link_via_root: /f and /d/f are one object, known through Hd, looked up
\*                  through the root
\*   link_via_dir:  the same object, known through the root, looked up
\*                  through Hd
InitC4 ==
    \E v \in C4Variants :
      LET fIno == IF v = "rootfile" THEN FirstFileIno + 1 ELSE FirstFileIno
          Hd == hash_st_ino(RootDev, DirIno)
          H1 == hash_st_ino(RootDev, fIno)
          viaRoot == v \in {"rootfile", "link_via_dir"}
          parent == IF v \in {"rootfile", "link_via_root"} THEN FUSE_ROOT_ID ELSE Hd
      IN
      /\ dirent = [x \in {RootIno, DirIno} \X FsNames |->
                     IF x = <<RootIno, "d">> THEN DirIno
                     ELSE IF x = <<DirIno, "f">> THEN FirstFileIno
                     ELSE IF x = <<RootIno, "f">> /\ v # "dirfile" THEN fIno
                     ELSE 0]
      /\ nextIno = fIno + 1
      /\ rec = <<[fd |-> RootIno, ino |-> 0, dev |-> 0, refcount |-> 2,
                  nodeid |-> 0, closes |-> 0, frees |-> 0],
                 [fd |-> DirIno, ino |-> DirIno, dev |-> RootDev, refcount |-> 1,
                  nodeid |-> Hd, closes |-> 0, frees |-> 0],
                 [fd |-> fIno, ino |-> fIno, dev |-> RootDev, refcount |-> 1,
                  nodeid |-> H1, closes |-> 0, frees |-> 0]>>
      /\ ino_to_ptr = [h \in Handles |->
                         IF h = FUSE_ROOT_ID THEN RootRec
                         ELSE IF h = Hd THEN C4Dir
                         ELSE IF h = H1 THEN C4Rec
                         ELSE NULL]
      /\ forgotten_inodes = [h \in Handles |-> <<>>]
      /\ root_dir_inodes = [n \in Names |->
                              IF n = "d" THEN Hd
                              ELSE IF n = "f" /\ viaRoot THEN H1
                              ELSE 0]
      /\ root_dir_names = [h \in Handles |->
                             IF h = Hd THEN "d"
                             ELSE IF h = H1 /\ viaRoot THEN "f"
                             ELSE ""]
      /\ pc = [t \in Threads |->
                 IF t = "w1" THEN "lookup_open"
                 ELSE IF t = "w2" THEN "forget_read"
                 ELSE "idle"]
      /\ req = [t \in Threads |->
                  IF t = "w1"
                  THEN [IdleReq EXCEPT !.op = "lookup", !.parent = parent, !.name = "f"]
                  ELSE IF t = "w2"
                  THEN [IdleReq EXCEPT !.op = "forget", !.ino = H1, !.n = 1]
                  ELSE IdleReq]
      /\ kref = [h \in Handles |-> IF h \in {Hd, FUSE_ROOT_ID} THEN 1 ELSE 0]
      /\ nfds = 3
      /\ nreq = MaxReqs
      /\ aborted = FALSE
      /\ rt = NoRt
      /\ AuxInit

NextC4 ==
    \E t \in Workers :
        \/ LookupOpen(t)
        \/ LookupFind(t)
        \/ LookupInsert(t)
        \/ LookupRootIdx1(t)
        \/ LookupRootIdx2(t)
        \/ LookupReply(t)
        \/ ForgetRead(t)
        \/ Unref(t)
        \/ UnrefFree(t)

SpecC4 == InitC4 /\ [][NextC4]_vars

(* ============================== the claims ============================= *)
HeapRecs == (RootRec + 1)..Len(rec)

\* Allocated, not yet brought to refcount zero, not freed.
Live(p) == rec[p].refcount > 0 /\ rec[p].frees = 0

Quiescent == \A t \in Threads : pc[t] = "idle"

\* C1: in every reachable state at most one live ObjectRecord exists per
\* (device, inode) pair, and exactly one Handle of the Inode Table maps to it.
C1_OneRecordPerInode ==
    /\ \A p, q \in HeapRecs :
         (p # q /\ Live(p) /\ Live(q)) =>
             <<rec[p].dev, rec[p].ino>> # <<rec[q].dev, rec[q].ino>>
    /\ \A p \in HeapRecs :
         Live(p) => Cardinality({h \in Handles : ino_to_ptr[h] = p}) = 1

\* C2: whenever no request is in flight, the refcount of every record that
\* is not freed equals the entry replies that returned its Handle minus the
\* forget counts received for that Handle.
C2_RefcountConservation ==
    (Quiescent /\ ~aborted) =>
        \A p \in HeapRecs : rec[p].frees = 0 => rec[p].refcount = kref[rec[p].nodeid]

\* C3: a release that brings the refcount to zero evicts the record exactly
\* once (no Handle maps to it any more, its descriptor is closed once and it
\* is freed once); a release that leaves the refcount above zero leaves the
\* record registered in the Inode Table with its descriptor open.
C3_EvictedExactlyOnce ==
    [][\A t \in Workers :
         /\ (pc[t] = "unref" /\ pc'[t] # "unref") =>
               LET p == req[t].inode
               IN  IF rec'[p].refcount = 0
                   THEN /\ \A h \in Handles : ino_to_ptr'[h] # p
                        /\ rec[p].frees = 0 /\ rec[p].closes = 0
                   ELSE /\ ino_to_ptr'[rec'[p].nodeid] = p
                        /\ rec'[p].frees = 0 /\ rec'[p].closes = 0
         /\ (pc[t] = "unref_free" /\ pc'[t] # "unref_free") =>
               /\ rec'[req[t].inode].frees = 1
               /\ rec'[req[t].inode].closes = 1
      ]_vars

\* C4: with H1 at refcount 1, forget(H1, 1) racing lookup(parent, "f") of
\* the same object never fails an assertion, never closes a descriptor or
\* frees a record twice, leaves every open descriptor owned by a record of
\* the Inode Table, and, when the lookup has replied, ends in exactly one of
\* (a) the original record registered under H1 with refcount 1, nothing
\* allocated, (b) the original record closed and freed once and a new record
\* of the same object registered under H1 with refcount 1.
C4_ForgetRacesLookup ==
    LET o == C4Rec
        h == rec[o].nodeid
        n == C4Rec + 1
    IN  /\ ~aborted
        /\ \A p \in HeapRecs : rec[p].frees <= 1 /\ rec[p].closes <= 1
        /\ Quiescent =>
              /\ nfds = 1 + Cardinality({p \in HeapRecs : rec[p].frees = 0})
              /\ \A p \in HeapRecs :
                    rec[p].frees = 0 =>
                        rec[p].closes = 0 /\ ino_to_ptr[rec[p].nodeid] = p
              /\ kref[h] = 1 =>
                    \/ /\ Len(rec) = o
                       /\ ino_to_ptr[h] = o
                       /\ rec[o].refcount = 1 /\ rec[o].frees = 0
                    \/ /\ Len(rec) = n
                       /\ rec[o].frees = 1 /\ rec[o].closes = 1
                       /\ ino_to_ptr[h] = n
                       /\ rec[n].refcount = 1 /\ rec[n].frees = 0
                       /\ rec[n].ino = rec[o].ino /\ rec[n].nodeid = h

\* C4 witness: the lookup has registered a new record while the forget,
\* having evicted the original one, has not yet closed and freed it.
C4_Witness ==
    /\ Len(rec) = C4Rec + 1
    /\ \E t, u \in Workers :
          /\ pc[t] = "unref_free" /\ req[t].inode = C4Rec
          /\ pc[u] = "lookup_reply" /\ req[u].inode = C4Rec + 1

\* C5: when no system call or allocation fails, lookup(parent, x), release
\* of the returned Handle by 1 and lookup(parent, x) again, with nothing in
\* between, return the same Handle and the same inode, whether or not the
\* release evicted the record.
C5_RoundTrip ==
    (rt.phase = 3 /\ ~rt.failed) => (rt.ino2 = rt.ino1 /\ rt.st2 = rt.st1)

\* C5 witness: a round trip is complete whose release evicted the record
\* and whose second lookup went through the forgotten path of the Handle.
C5_Witness ==
    /\ rt.phase = 3 /\ ~rt.failed /\ rt.evicted
    /\ rt.name = "." /\ rt.parent = rt.ino1
    /\ rt.ino2 = rt.ino1

\* A lookup step that has just allocated and registered a new record.
Inserted(t) == pc[t] = "lookup_insert" /\ pc'[t] \in {"lookup_rootidx1", "lookup_reply"}

\* A release step that has just brought a record to refcount zero.
Evicted(t) == pc[t] = "unref" /\ pc'[t] = "unref_free"

NewRecordOk(t, isRecovery) ==
    LET p == req'[t].inode
    IN  /\ p = Len(rec')
        /\ rec'[p].refcount = 1
        /\ rec'[p].fd = req[t].newfd
        /\ rec'[p].nodeid = IF isRecovery THEN req[t].parent
                            ELSE hash_st_ino(rec'[p].dev, rec'[p].ino)
        /\ ino_to_ptr'[rec'[p].nodeid] = p

\* C7 (as claimed): a newly allocated record has refcount 1 and is
\* registered under the parent's Handle whenever the parent had a pending
\* ForgottenEntry (for "." or any other name), else under handle_for(dev, ino).
C7_ParentHandleForAnyName ==
    [][\A t \in Workers :
         Inserted(t) => NewRecordOk(t, req[t].forgotten # <<>>)
      ]_vars

\* C7 (amended): a newly allocated record has refcount 1 and is registered
\* under the parent's Handle exactly when the parent had a pending
\* ForgottenEntry and the name is "."; for every other name, and when the
\* parent has no ForgottenEntry, it is registered under handle_for(dev, ino).
C7_NewRecordHandle ==
    [][\A t \in Workers :
         Inserted(t) => NewRecordOk(t, req[t].forgotten # <<>> /\ req[t].name = ".")
      ]_vars

\* C7 witness: both cases have happened under a forgotten parent: some
\* record was allocated by a lookup of another name and carries the hash of
\* its own (device, inode), not the parent's Handle.
C7_Witness ==
    \E t \in Workers :
        /\ pc[t] = "lookup_reply"
        /\ req[t].forgotten # <<>> /\ req[t].name # "."
        /\ req[t].newfd # NoFd
        /\ rec[req[t].inode].nodeid # req[t].parent
        /\ ino_to_ptr[rec[req[t].inode].nodeid] = req[t].inode

\* C8: an entry name -> H of RootChildIndex is removed only in the step that
\* destroys the record registered under H, and whenever no request is in
\* flight every name of the index maps to a Handle with a live record.
C8_RootChildIndex ==
    [][/\ \A n \in Names :
            (root_dir_inodes[n] # 0 /\ root_dir_inodes'[n] = 0) =>
                /\ ino_to_ptr[root_dir_inodes[n]] # NULL
                /\ ino_to_ptr'[root_dir_inodes[n]] = NULL
       /\ Quiescent' =>
            \A n \in Names :
                root_dir_inodes'[n] # 0 => ino_to_ptr'[root_dir_inodes'[n]] # NULL
      ]_vars

\* C9: a delete request whose name is not in root_dir_inodes gets -ECHILD
\* and makes no kernel-facing invalidation call.
C9_UnknownNameNotFound ==
    \A c \in RpcConns :
        /\ pc[c] = "rpc_notify" => req[c].ino # 0
        /\ (pc[c] = "rpc_write" /\ req[c].ino = 0) =>
               (req[c].ret = -ECHILD /\ ~req[c].notified)

\* C9 witness: a request for an unregistered name is about to be answered.
C9_Witness ==
    \E c \in RpcConns :
        pc[c] = "rpc_write" /\ req[c].ino = 0 /\ req[c].ret = -ECHILD

\* C10: the invalidation for name n is issued with the Handle registered for
\* n at the time of the call, and that Handle is backed by a record of the
\* Inode Table at that time.
C10_NotifyUsesLiveHandle ==
    [][\A c \in RpcConns :
         (pc[c] = "rpc_notify" /\ pc'[c] = "rpc_write") =>
             /\ root_dir_inodes[req[c].name] = req[c].ino
             /\ ino_to_ptr[req[c].ino] # NULL
      ]_vars

\* A step of connection c that writes a result code to the peer.
Responds(c) == pc[c] = "rpc_write" /\ pc'[c] = "idle"

\* A step of connection c that takes a request of the given kind off the
\* connection.
Reads(c, kind) == pc[c] = "idle" /\ req'[c].op = kind

C12_RequestResponse ==
    [][\A c \in RpcConns :
         /\ Reads(c, "delete") =>
               (conn[c].open /\ pc'[c] \in {"rpc_notify", "rpc_write"})
         /\ pc[c] = "rpc_notify" => pc'[c] \in {"rpc_notify", "rpc_write"}
         /\ (pc[c] = "rpc_write" /\ req[c].op = "delete") =>
               \/ pc'[c] = "rpc_write" /\ req'[c] = req[c]
               \/ Responds(c) /\ conn'[c].open
               \/ pc'[c] = "rpc_close" /\ req'[c].op = "write_failed"
         /\ Reads(c, "eof") => pc'[c] = "rpc_close"
         /\ (pc[c] = "rpc_close" /\ pc'[c] # "rpc_close") =>
               /\ pc'[c] = "rpc_done"
               /\ conn[c].open /\ ~conn'[c].open
               /\ conn'[c].closes = 1
         /\ pc[c] = "rpc_done" => (pc'[c] = "rpc_done" /\ conn'[c] = conn[c])
         /\ conn'[c] # conn[c] => pc[c] = "rpc_close"
      ]_vars

\* C12 witness: the non-zero result of a failed invalidation is about to be
\* written on an open connection.
C12_Witness ==
    \E c \in RpcConns :
        /\ pc[c] = "rpc_write" /\ req[c].op = "delete"
        /\ req[c].notified /\ req[c].ret # 0
        /\ conn[c].open

\* C13: the side channel resolves a name only when RootChildIndex is whole:
\* the Handle it reads for name n is registered with name n in the reverse
\* map and has a record in the Inode Table, no insert or eviction being
\* half done.
C13_SideChannelSeesWholeIndex ==
    [][\A c \in RpcConns :
         (Reads(c, "delete") /\ req'[c].ino # 0) =>
             /\ root_dir_names[req'[c].ino] = req'[c].name
             /\ ino_to_ptr[req'[c].ino] # NULL
      ]_vars

\* C14 (as claimed): hash_st_ino returns the reserved root Handle if and
\* only if its arguments are the root's (device, inode) pair.
C14_RootIffRootPair ==
    hcall.done =>
        (hcall.out = FUSE_ROOT_ID <=> <<hcall.dev, hcall.ino>> = root_inode_key)

\* C14 (amended): hash_st_ino returns the reserved root Handle for the
\* root's pair and the hash of the pair, whatever its value, for every
\* other pair: the result is the root Handle only for the root's pair or
\* for a pair whose hash is that value.
C14_RootPairElseHash ==
    hcall.done =>
        /\ <<hcall.dev, hcall.ino>> = root_inode_key => hcall.out = FUSE_ROOT_ID
        /\ <<hcall.dev, hcall.ino>> # root_inode_key =>
              hcall.out = wyhash(hcall.dev, hcall.ino)

\* C14 witness: hash_st_ino has been called with the root's pair.
C14_Witness ==
    hcall.done /\ <<hcall.dev, hcall.ino>> = root_inode_key
               /\ hcall.out = FUSE_ROOT_ID

\* C15: the root record is never subject to the Forgotten-Object path: it
\* stays in the Inode Table under the root Handle, its descriptor is never
\* closed, the record is never freed, and no ForgottenEntry is created for
\* the root Handle.
C15_RootNeverEvicted ==
    /\ ino_to_ptr[FUSE_ROOT_ID] = RootRec
    /\ rec[RootRec].closes = 0
    /\ rec[RootRec].frees = 0
    /\ forgotten_inodes[FUSE_ROOT_ID] = <<>>

\* C16: directory paging. What the kernel has collected from successive
\* pages, each call continuing at the offset of the last entry returned, is
\* a run of whole entries of the stream in stream order with none skipped
\* or duplicated; and a page stops short of the end of the stream only
\* because the next entry does not fit in what is left of the buffer (or an
\* error interrupted it).
C16_DirectoryPaging ==
    (dirp.open /\ dirp.nread > 0) =>
        /\ dirp.base + Len(dirp.listed) <= Len(dirp.stream)
        /\ \A i \in 1..Len(dirp.listed) :
              /\ dirp.listed[i].off = dirp.base + i
              /\ dirp.listed[i].name = dirp.stream[dirp.base + i].name
              /\ dirp.listed[i].ino = dirp.stream[dirp.base + i].ino
        /\ (dirp.last.err = 0 /\ dirp.offset < Len(dirp.stream)) =>
              fuse_add_direntry(dirp.stream[dirp.offset + 1].name, dirp.last.plus)
                  > dirp.last.rem
        /\ ~dirp.last.error => dirp.offset = dirp.last.offset + Len(dirp.last.page)

\* C16 witness: a page that stopped short because the next entry did not
\* fit has been followed by a page that continued after it.
C16_Witness ==
    /\ dirp.open /\ dirp.nread > 1
    /\ dirp.base = 0
    /\ Len(dirp.listed) > Len(dirp.last.page)
    /\ dirp.last.page # <<>>
    /\ dirp.last.offset > 0
    /\ dirp.offset < Len(dirp.stream)

RefOf(r, tbl, ino) ==
    LET p == IF ino = RootIno THEN RootRec ELSE tbl[hash_st_ino(RootDev, ino)]
    IN  IF p = NULL THEN 0 ELSE r[p].refcount

RECURSIVE Serialized(_, _)
Serialized(page, ino) ==
    IF page = <<>> THEN 0
    ELSE (IF Head(page).ino = ino /\ ~is_dot_or_dotdot(Head(page).name)
          THEN 1 ELSE 0) + Serialized(Tail(page), ino)

\* C17: a readdir-with-attributes call grows the refcount of each object by
\* exactly the number of its entries serialized into the page it built (an
\* entry looked up that did not fit is rolled back, an evicted record
\* counting as refcount 0); entries "." and ".." change no refcount, and a
\* plain readdir changes none.
C17_ReaddirplusRefcounts ==
    [][(dirp.open /\ dirp'.open /\ dirp'.nread = dirp.nread + 1) =>
         \A ino \in Inos :
            RefOf(rec', ino_to_ptr', ino) =
                RefOf(rec, ino_to_ptr, ino)
                + (IF dirp'.last.plus THEN Serialized(dirp'.last.page, ino) ELSE 0)
      ]_vars

\* C17 witness: a readdir-with-attributes call has returned a page holding a
\* looked-up entry after rolling back, and evicting, the record of the
\* entry that did not fit.
C17_Witness ==
    /\ dirp.open /\ dirp.nread > 0
    /\ dirp.last.plus
    /\ dirp.last.rollback # 0
    /\ ino_to_ptr[dirp.last.rollback] = NULL
    /\ \E i \in 1..Len(dirp.last.page) : dirp.last.page[i].nodeid # 0

TablesUnchanged ==
    /\ rec' = rec
    /\ ino_to_ptr' = ino_to_ptr
    /\ forgotten_inodes' = forgotten_inodes
    /\ root_dir_inodes' = root_dir_inodes
    /\ root_dir_names' = root_dir_names

\* A lookup request that fails in its first step (openat or fstatat): the
\* only request that is received and answered in one step without changing
\* the backing tree or the kernel's references.
FailsAtOpen(t) ==
    /\ pc[t] = "idle" /\ pc' = pc
    /\ nreq' = nreq + 1
    /\ dirent' = dirent /\ kref' = kref

\* C19: a lookup that fails (open, post-open stat or allocation) is answered
\* once, has closed the descriptor it opened, and has left the Inode Table,
\* every refcount, the ForgottenEntry set and RootChildIndex as they were:
\* none of its steps up to the failure changes them, and the count of open
\* descriptors is back where the lookup found it.
C19_FailedLookupLeavesNoTrace ==
    [][\A t \in Workers :
         /\ FailsAtOpen(t) =>
               TablesUnchanged /\ nfds' = nfds /\ req'[t] = IdleReq
         /\ (pc[t] = "idle" /\ pc'[t] = "lookup_find") =>
               TablesUnchanged /\ nfds' = nfds + 1 /\ req'[t].newfd # NoFd
         /\ (pc[t] = "lookup_find" /\ pc'[t] = "lookup_insert") =>
               TablesUnchanged /\ nfds' = nfds /\ req'[t] = req[t]
         /\ (pc[t] = "lookup_insert" /\ pc'[t] = "idle") =>
               TablesUnchanged /\ nfds' = nfds - 1 /\ req'[t] = IdleReq
      ]_vars

\* C19 witness: requests have been served and the state is the one the
\* mount started with, which only failed lookups leave behind.
C19_Witness ==
    /\ nreq > 1
    /\ \A t \in Threads : pc[t] = "idle"
    /\ Len(rec) = RootRec /\ rec[RootRec].refcount = 2
    /\ nfds = 1
    /\ nextIno = FirstFileIno + 1
    /\ dirent[RootIno, "d"] = DirIno /\ dirent[DirIno, "f"] = FirstFileIno
    /\ kref[FUSE_ROOT_ID] = 1

(* ------------------- hard link of a recovered record ------------------ *)
\* The state after lookup(root, "d"), lookup(Hd, "f"), forget(H1, 1),
\* unlink(Hd, "f"), mknod(Hd, "f"), forget(H2, 1) and lookup(H1, "."): the
\* file first seen at /d/f was H1; the file now at /d/f is another object,
\* was H2 and is forgotten; the lookup of "." under H1 followed H1's
\* forgotten path to it and registered it as a recovered record under H1.
InitLink ==
    LET Hd == hash_st_ino(RootDev, DirIno)
        H1 == hash_st_ino(RootDev, FirstFileIno)
        H2 == hash_st_ino(RootDev, FirstFileIno + 1)
        gone(ino, h) == [fd |-> ino, ino |-> ino, dev |-> RootDev, refcount |-> 0,
                         nodeid |-> h, closes |-> 1, frees |-> 1]
    IN
    /\ dirent = [x \in {RootIno, DirIno} \X FsNames |->
                   IF x = <<RootIno, "d">> THEN DirIno
                   ELSE IF x = <<DirIno, "f">> THEN FirstFileIno + 1
                   ELSE 0]
    /\ nextIno = FirstFileIno + 2
    /\ rec = <<[fd |-> RootIno, ino |-> 0, dev |-> 0, refcount |-> 2,
                nodeid |-> 0, closes |-> 0, frees |-> 0],
               [fd |-> DirIno, ino |-> DirIno, dev |-> RootDev, refcount |-> 1,
                nodeid |-> Hd, closes |-> 0, frees |-> 0],
               gone(FirstFileIno, H1),
               gone(FirstFileIno + 1, H2),
               [fd |-> FirstFileIno + 1, ino |-> FirstFileIno + 1,
                dev |-> RootDev, refcount |-> 1, nodeid |-> H1, closes |-> 0,
                frees |-> 0]>>
    /\ ino_to_ptr = [h \in Handles |->
                       IF h = FUSE_ROOT_ID THEN RootRec
                       ELSE IF h = Hd THEN RootRec + 1
                       ELSE IF h = H1 THEN RootRec + 4
                       ELSE NULL]
    /\ forgotten_inodes = [h \in Handles |->
                             IF h = H2 THEN <<"/", "d", "f">> ELSE <<>>]
    /\ root_dir_inodes = [n \in Names |-> IF n = "d" THEN Hd ELSE 0]
    /\ root_dir_names = [h \in Handles |-> IF h = Hd THEN "d" ELSE ""]
    /\ pc = [t \in Threads |-> "idle"]
    /\ req = [t \in Threads |-> IdleReq]
    /\ kref = [h \in Handles |-> IF h \in {FUSE_ROOT_ID, Hd, H1} THEN 1 ELSE 0]
    /\ nfds = 3
    /\ nreq = 0
    /\ aborted = FALSE
    /\ rt = NoRt
    /\ AuxInit

NextLink ==
    \/ Lookup(SeqWorker)
    \/ LookupFind(SeqWorker)
    \/ LookupInsert(SeqWorker)
    \/ LookupRootIdx1(SeqWorker)
    \/ LookupRootIdx2(SeqWorker)
    \/ LookupReply(SeqWorker)
    \/ Forget(SeqWorker)
    \/ Unref(SeqWorker)
    \/ UnrefFree(SeqWorker)
    \/ Mknod(SeqWorker)
    \/ LookupOpen(SeqWorker)
    \/ Unlink(SeqWorker)
    \/ Link(SeqWorker)
    \/ LinkRef(SeqWorker)

SpecLink == InitLink /\ [][NextLink]_vars

\* C20: creation and lookup share one registration path. For hard-link:
\* once linkat has succeeded, the effect of the handler on the Inode Table,
\* the refcounts, RootChildIndex and the replied Handle is that of
\* lookup(parent, name) on the new name. (make-node, make-directory, symlink
\* and create call lo_do_lookup itself.)
C20_LinkRegistersLikeLookup ==
    [][\A t \in Workers :
         (pc[t] = "link_ref" /\ pc'[t] = "idle") =>
            LET lk == lo_do_lookup(Tables, req[t].parent, req[t].name, "none", 0)
            IN  /\ lk.err = 0
                /\ rec' = lk.T.rec
                /\ ino_to_ptr' = lk.T.ino_to_ptr
                /\ root_dir_inodes' = lk.T.root_dir_inodes
                /\ root_dir_names' = lk.T.root_dir_names
                /\ kref' = KernelTakesRef(lk.ino)
      ]_vars

(* --------------- handlers addressed to one Handle ---------------------- *)
\* getattr, setattr, open, hard-link (its source), getxattr and statfs.
HandleOps == {"getattr", "setattr", "open", "link", "getxattr", "statfs"}

\* The handlers that test lo_inode(req, ino) themselves and reply EBADF
\* (lines 231-235, 477-481, 1017-1021); the others pass lo_fd(req, ino) to a
\* system call.
TestsInode(op) == op \in {"setattr", "link", "getxattr"}

\* errno of the system call the handler makes on descriptor fd: fstatat
\* (line 219) and fstatvfs (line 971) take the descriptor itself and fail
\* with EBADF on -1; lo_open prints it into "/proc/self/fd/%i" and opens
\* that path (lines 885-886), and no file "/proc/self/fd/-1" exists.
SysErrno(op, fd) ==
    IF fd # NoFd THEN ""
    ELSE IF op = "open" THEN "ENOENT"
    ELSE "EBADF"

\* One of the handlers above, served for Handle ino.
HandleOp(t) ==
    /\ CanStart(t)
    /\ \E op \in HandleOps, ino \in Handles :
         reply' = [op |-> op, ino |-> ino, n |-> 1,
                   err |-> IF TestsInode(op)
                           THEN IF lo_inode(ino) = NULL THEN "EBADF" ELSE ""
                           ELSE SysErrno(op, lo_fd(ino)),
                   left |-> 0, at |-> nreq + 1, forgets |-> <<>>,
                   chs |-> <<>>]
    /\ nreq' = nreq + 1
    /\ UNCHANGED <<dirent, nextIno, rec, ino_to_ptr, forgotten_inodes,
                   root_dir_inodes, root_dir_names, pc, req, kref, nfds, aborted,
                   rt, conn, dirp, hcall, mutex>>

NextOps ==
    \/ Lookup(SeqWorker)
    \/ LookupFind(SeqWorker)
    \/ LookupInsert(SeqWorker)
    \/ LookupRootIdx1(SeqWorker)
    \/ LookupRootIdx2(SeqWorker)
    \/ LookupReply(SeqWorker)
    \/ Forget(SeqWorker)
    \/ Unref(SeqWorker)
    \/ UnrefFree(SeqWorker)
    \/ HandleOp(SeqWorker)

SpecOps == Init /\ [][NextOps]_vars

\* C21: an operation other than lookup that is addressed to a Handle with
\* no live ObjectRecord fails with the bad-descriptor error and changes
\* neither the ForgottenEntry set nor the Inode Table.
C21_NoRecordIsBadDescriptor ==
    [][(reply' # reply /\ reply'.op \in HandleOps
            /\ lo_inode(reply'.ino) = NULL) =>
          /\ reply'.err = "EBADF"
          /\ reply'.n = 1
          /\ forgotten_inodes' = forgotten_inodes
          /\ ino_to_ptr' = ino_to_ptr
          /\ rec' = rec
      ]_vars

(* ------------------- the length prefix of the side channel ------------ *)
\* The width of the length prefix and of int, scaled down from 32 bits, and
\* PATH_MAX scaled with it; the most name bytes a peer has sent.
LenBits == 4
PATH_MAX == 4
MaxAvail == 6

WireLens == 0..(2^LenBits - 1)

\* Line 1282: read(conn_fd, &len, sizeof(len)) with int len: the unsigned
\* value on the wire as a two's-complement int.
AsInt(u) == IF u >= 2^(LenBits - 1) THEN u - 2^LenBits ELSE u

\* A variant that compares the length as the unsigned value it is on the
\* wire.
TooLarge_Unsigned(u) == u > PATH_MAX - 1

\* Line 1290: if (len > PATH_MAX - 1), a signed comparison.
TooLarge(u) == AsInt(u) > PATH_MAX - 1

\* Line 1295: read(conn_fd, path_buf, len): len converts to size_t, a
\* negative one to a count beyond any buffer, and read stores what the peer
\* has sent, up to the count, or fails with -1.
ReadCount(len, avail) ==
    {IF len < 0 \/ len > avail THEN avail ELSE len, -1}

\* serve_rpc_conn, lines 1281-1301: the length prefix u arrives, the peer
\* has sent avail name bytes after it.
RpcReadLen(c) ==
    /\ Idle(c)
    /\ \E u \in WireLens, avail \in 0..MaxAvail, path \in FsNames :
       \E nread \in ReadCount(AsInt(u), avail) :
         LET len == AsInt(u)
             ino == root_dir_inodes[path]
         IN  IF TooLarge(u)
             THEN /\ pc' = [pc EXCEPT ![c] = "rpc_close"]
                  /\ req' = [req EXCEPT ![c] =
                               [IdleReq EXCEPT !.op = "oversized", !.wire = u,
                                               !.ret = -ECHILD]]
             ELSE IF nread # len
             THEN /\ pc' = [pc EXCEPT ![c] = "rpc_close"]
                  /\ req' = [req EXCEPT ![c] =
                               [IdleReq EXCEPT !.op = "short_path", !.wire = u,
                                               !.nread = nread, !.ret = -ECHILD]]
             ELSE /\ pc' = [pc EXCEPT ![c] = RpcAfterFind(ino)]
                  /\ req' = [req EXCEPT ![c] =
                               [IdleReq EXCEPT !.op = "delete", !.name = path,
                                               !.ino = ino, !.wire = u,
                                               !.nread = nread,
                                               !.ret = IF ino = 0 THEN -ECHILD ELSE 0]]
    /\ UNCHANGED <<dirent, nextIno, rec, ino_to_ptr, forgotten_inodes,
                   root_dir_inodes, root_dir_names, kref, nfds, nreq, aborted, rt>>
    /\ UNCHANGED Aux

NextLen ==
    \/ Lookup(SeqWorker)
    \/ LookupFind(SeqWorker)
    \/ LookupInsert(SeqWorker)
    \/ LookupRootIdx1(SeqWorker)
    \/ LookupRootIdx2(SeqWorker)
    \/ LookupReply(SeqWorker)
    \/ \E c \in RpcConns :
        \/ RpcReadLen(c)
        \/ RpcNotify(c)
        \/ RpcWrite(c)
        \/ RpcWriteFail(c)
        \/ RpcClose(c)

SpecLen == Init /\ [][NextLen]_vars

\* C22: the side-channel name is bounded. For every length on the wire that
\* exceeds PATH_MAX - 1, values in the upper half of the word included, the
\* server rejects the request without reading any name bytes into its
\* buffer and without resolving any name.
C22_LengthBounded ==
    [][\A c \in RpcConns :
         (pc[c] = "idle" /\ pc'[c] # "idle" /\ req'[c].wire > PATH_MAX - 1) =>
            /\ req'[c].nread = 0
            /\ pc'[c] = "rpc_close"
      ]_vars

\* ---------------------------------------------------------------------
\* C23: refcount zero is never visible in the table.

\* C23: between critical sections no record that the Inode Table still
\* holds has refcount zero or is freed (the decrement to zero and the erase
\* are one critical section of unref_inode), so whatever lo_find is about
\* to read from the table passes its assertion refcount > 0 (line 310).
C23_NoZeroRefcountInTable ==
    /\ \A h \in DOMAIN ino_to_ptr :
         ino_to_ptr[h] # NULL =>
            /\ rec[ino_to_ptr[h]].refcount > 0
            /\ rec[ino_to_ptr[h]].frees = 0
    /\ \A t \in Workers :
         pc[t] = "lookup_find" =>
            LET ret == ino_to_ptr[hash_st_ino(RootDev, req[t].st_ino)]
            IN  ret # NULL => \A rc \in ReadRefcount(ret) : rc > 0

\* A record was evicted (refcount zero, not yet or already freed) while
\* another thread is about to run lo_find for the same inode.
C23_Witness ==
    \E t \in Workers, p \in 1..Len(rec) :
        /\ pc[t] = "lookup_find"
        /\ rec[p].refcount = 0
        /\ rec[p].ino = req[t].st_ino
        /\ ino_to_ptr[rec[p].nodeid] = NULL

\* ---------------------------------------------------------------------
\* C24: which path a lookup opens.

\* What the lookup of name under parent resolves to when it goes through
\* the forgotten path of parent.
ViaForgotten(parent, name) ==
    IF name = "." THEN Resolve(forgotten_inodes[parent])
    ELSE Resolve(Append(forgotten_inodes[parent], name))

\* What it resolves to relative to the descriptor held by parent's record.
ViaParentFd(parent, name) ==
    IF lo_inode(parent) = NULL THEN NoFd
    ELSE openat(rec[lo_inode(parent)].fd, name)

\* C24: a lookup that gets past its open has opened the forgotten path
\* (itself for ".", forgotten_path/name otherwise) if the parent has a
\* ForgottenEntry and the name relative to the parent's descriptor if it
\* has none; and the lookup fails at the open exactly when that path does
\* not resolve.
C24_ForgottenPathIffEntry ==
    [][\A t \in Workers :
         (pc[t] \in {"idle", "lookup_open"} /\ pc'[t] = "lookup_find") =>
            LET parent == req'[t].parent
                name == req'[t].name
                want == IF forgotten_inodes[parent] # <<>>
                        THEN ViaForgotten(parent, name)
                        ELSE ViaParentFd(parent, name)
            IN  /\ req'[t].newfd = want
                /\ want # NoFd
                /\ \A p \in Handles, n \in Names :
                     LookupTarget(forgotten_inodes[p], p, n) =
                        IF forgotten_inodes[p] # <<>> THEN ViaForgotten(p, n)
                        ELSE ViaParentFd(p, n)]_vars

\* A recovery lookup of a name other than "." is past its open: the parent
\* has a ForgottenEntry and no record.
C24_Witness ==
    \E t \in Workers :
        /\ pc[t] = "lookup_find"
        /\ req[t].name # "."
        /\ forgotten_inodes[req[t].parent] # <<>>
        /\ lo_inode(req[t].parent) = NULL

\* ---------------------------------------------------------------------
\* C25: a lookup that finds the record.

\* The step of lo_find and the close after it that found a record.
FindHit(t) == pc[t] = "lookup_find" /\ pc'[t] = "lookup_reply"

\* C25: a lookup that finds a record for the stat'ed inode closes the
\* descriptor it opened, adds exactly one to that record's refcount and
\* changes nothing else (no record is allocated, the table and the
\* descriptors held by its records are as before), and its reply carries
\* the Handle under which that record is registered.
C25_FoundRecordIsReused ==
    [][\A t \in Workers :
         /\ FindHit(t) =>
              LET ret == req'[t].inode
              IN  /\ ret = ino_to_ptr[hash_st_ino(RootDev, req[t].st_ino)]
                  /\ ret # NULL
                  /\ Len(rec') = Len(rec)
                  /\ rec'[ret] = [rec[ret] EXCEPT !.refcount = @ + 1]
                  /\ \A p \in 1..Len(rec) : p # ret => rec'[p] = rec[p]
                  /\ nfds' = nfds - 1
                  /\ req'[t].newfd = NoFd
                  /\ ino_to_ptr' = ino_to_ptr
                  /\ forgotten_inodes' = forgotten_inodes
         /\ (pc[t] = "lookup_reply" /\ pc'[t] = "idle" /\ req[t].newfd = NoFd) =>
              \E h \in Handles :
                 /\ lo_inode(h) = req[t].inode
                 /\ kref' = [kref EXCEPT ![h] = @ + 1]]_vars

\* A lookup has found a record that the kernel already references and has
\* taken its reference.
C25_Witness ==
    \E t \in Workers :
        /\ pc[t] = "lookup_reply"
        /\ req[t].newfd = NoFd
        /\ rec[req[t].inode].refcount = 2
        /\ rec[req[t].inode].frees = 0
        /\ req[t].inode # RootRec

\* ---------------------------------------------------------------------
\* C26: a forget of more references than the record tracks.

\* Thread t is at the critical section of unref_inode with a count larger
\* than the refcount of the live record it holds.
Overdrawn(t) ==
    /\ pc[t] = "unref"
    /\ rec[req[t].inode].frees = 0
    /\ rec[req[t].inode].refcount < req[t].n

\* The largest refcount the requests of one run can build up: the root's
\* initial 2 and one per request.
MaxRefcount == 2 + MaxReqs

\* C26: a thread that is to release more references than its record tracks
\* never gets past the assertion; the step that ends the process changes
\* nothing else, so the record is not modified and nothing is evicted; and
\* no stored refcount has wrapped around.
C26_OverdrawnForgetAborts ==
    [][/\ \A t \in Workers :
            Overdrawn(t) =>
               /\ pc'[t] = "unref"
               /\ req'[t] = req[t]
               /\ aborted' =>
                    /\ rec' = rec
                    /\ ino_to_ptr' = ino_to_ptr
                    /\ forgotten_inodes' = forgotten_inodes
                    /\ root_dir_inodes' = root_dir_inodes
                    /\ root_dir_names' = root_dir_names
                    /\ nfds' = nfds
       /\ \A p \in 1..Len(rec') :
            rec'[p].frees = 0 => rec'[p].refcount <= MaxRefcount]_vars

\* The process ended at the assertion of unref_inode on a live record.
C26_Witness ==
    /\ aborted
    /\ \E t \in Workers : Overdrawn(t)

\* ---------------------------------------------------------------------
\* C27: repositioning and the cached entry.

\* A step that is one call of lo_do_readdir.
ReaddirStep == dirp.open /\ dirp'.open /\ dirp'.nread = dirp.nread + 1

\* What a call that got past the test of line 719 does with the cursor:
\* it has called seekdir exactly if the offsets differ; an entry cached by
\* the previous call is then served first, without a readdir() for it, so
\* the call makes one readdir() per entry placed and one that ends the
\* page, less the one saved by the cache; a cached entry that does not fit
\* again stays cached; and the cursor offset is the requested offset plus
\* the entries placed.
CursorDiscipline ==
    LET L == dirp'.last
        cached == IF ~L.seek /\ dirp.entry # 0 THEN 1 ELSE 0
    IN  /\ L.seek <=> (L.offset # dirp.offset)
        /\ L.reads = Len(L.page) + 1 - cached
        /\ (cached = 1 /\ L.page # <<>>) => L.page[1].off = dirp.entry
        /\ (cached = 1 /\ L.page = <<>>) => dirp'.entry = dirp.entry
        /\ dirp'.offset = L.offset + Len(L.page)
        /\ \A i \in 1..Len(L.page) : L.page[i].off = L.offset + i

\* C27 as stated: every call of read_dir repositions the stream and drops
\* the cached entry exactly if the requested offset differs from the
\* cursor's, serves a cached entry first without re-reading the stream when
\* the offsets are equal, and moves the cursor offset only past entries
\* placed in the page.
C27_SeekIffOffsetDiffers ==
    [][ReaddirStep =>
         /\ dirp'.last.seek <=> (dirp'.last.offset # dirp.offset)
         /\ dirp'.last.buf => CursorDiscipline]_vars

\* C27, amended: the same for every call that has allocated its page
\* buffer; a call that cannot allocate it replies the error and leaves the
\* cursor (stream position, cached entry, offset) as it was, whatever the
\* requested offset.
C27_SeekIffOffsetDiffersOnceBuffered ==
    [][ReaddirStep =>
         IF dirp'.last.buf THEN CursorDiscipline
         ELSE /\ dirp'.entry = dirp.entry
              /\ dirp'.offset = dirp.offset
              /\ dirp'.pos = dirp.pos
              /\ ~dirp'.last.seek /\ dirp'.last.reads = 0
              /\ dirp'.last.error]_vars

\* A call at the cursor's offset has served the entry cached by the
\* previous call as the first of its page and read on from the stream.
C27_Witness ==
    /\ dirp.open /\ dirp.nread = 2
    /\ ~dirp.last.seek /\ dirp.last.buf
    /\ dirp.last.offset > 0
    /\ Len(dirp.last.page) = 2
    /\ dirp.last.reads = 2

\* ---------------------------------------------------------------------
\* lo_forget and lo_forget_multi as whole handlers on one dispatch thread.

\* A variant of the loop that walks the list from its end.
ForgetOrder_Reversed(i, count) == count + 1 - i

\* lo_forget_multi, line 623: the loop takes forgets[i] for i = 0, 1, ...
ForgetOrder(i, count) == i

\* lo_forget_one, lines 593-610, with unref_inode's assertion; S holds the
\* tables, whether the process has ended and the replies sent so far; ch is
\* what readlink yields if the record is evicted.
ForgetElem(S, f, ch) ==
    LET p == IF f.ino = FUSE_ROOT_ID THEN RootRec ELSE S.T.ino_to_ptr[f.ino]
    IN  IF S.aborted THEN S
        ELSE IF p = NULL
        THEN [S EXCEPT !.replies = @ + 1]
        ELSE IF ~unref_assert(S.T.rec[p].refcount, f.n)
        THEN [S EXCEPT !.aborted = TRUE]
        ELSE [S EXCEPT !.T = unref_inode(@, p, f.n, ch.res, ch.buf)]

\* Whether ch is what readlink can yield for element f in S: a path of the
\* evicted record's object, or nothing to choose when nothing is evicted.
ChoiceFits(S, f, ch) ==
    LET p == IF f.ino = FUSE_ROOT_ID THEN RootRec ELSE S.T.ino_to_ptr[f.ino]
    IN  IF ~S.aborted /\ p # NULL /\ S.T.rec[p].refcount = f.n
        THEN ch.buf \in Readlink(S.T.rec[p].fd)
        ELSE ch.res /\ ch.buf = DeletedPath

\* lo_forget_multi, lines 617-626: the loop over the list.
RECURSIVE lo_forget_multi(_, _, _, _)
lo_forget_multi(S, forgets, chs, i) ==
    IF i > Len(forgets) THEN S
    ELSE LET k == ForgetOrder(i, Len(forgets))
         IN  lo_forget_multi(
                [ForgetElem(S, forgets[k], chs[k])
                   EXCEPT !.fits = @ /\ ChoiceFits(S, forgets[k], chs[k])],
                forgets, chs, i + 1)

\* The forgets a request can carry: a count the kernel holds for the
\* Handle, or a Handle that has no record.
ForgetData ==
    {f \in [ino : Handles \ {FUSE_ROOT_ID}, n : 1..2] :
        \/ f.n <= kref[f.ino]
        \/ lo_inode(f.ino) = NULL /\ f.n = 1}

ReadlinkChoices == [res : BOOLEAN, buf : AllPaths \cup {DeletedPath}]

\* The handler around the list: lo_forget (lines 612-616) for one pair,
\* lo_forget_multi for a list; both end with fuse_reply_none.
ForgetHandler(t, op, forgets) ==
    \E chs \in [1..Len(forgets) -> ReadlinkChoices] :
      LET S == lo_forget_multi([T |-> Tables, aborted |-> FALSE,
                                replies |-> 0, fits |-> TRUE],
                               forgets, chs, 1)
      IN  /\ S.fits
          /\ rec' = S.T.rec
          /\ ino_to_ptr' = S.T.ino_to_ptr
          /\ forgotten_inodes' = S.T.forgotten_inodes
          /\ root_dir_inodes' = S.T.root_dir_inodes
          /\ root_dir_names' = S.T.root_dir_names
          /\ nfds' = S.T.nfds
          /\ aborted' = S.aborted
          /\ reply' = [op |-> op, ino |-> forgets[1].ino,
                       n |-> S.replies + (IF S.aborted THEN 0 ELSE 1),
                       err |-> IF S.replies > 0 THEN "EBADF" ELSE "",
                       left |-> 0, at |-> nreq + 1, forgets |-> forgets,
                       chs |-> chs]

RECURSIVE KernelDrops(_, _)
KernelDrops(k, forgets) ==
    IF forgets = <<>> THEN k
    ELSE KernelDrops([k EXCEPT ![Head(forgets).ino] =
                         IF @ >= Head(forgets).n THEN @ - Head(forgets).n ELSE 0],
                     Tail(forgets))

LoForget(t) ==
    /\ CanStart(t)
    /\ \E f \in ForgetData :
         /\ ForgetHandler(t, "forget", <<f>>)
         /\ kref' = KernelDrops(kref, <<f>>)
    /\ nreq' = nreq + 1
    /\ UNCHANGED <<dirent, nextIno, pc, req, rt, conn, dirp, hcall, mutex>>

LoForgetMulti(t) ==
    /\ CanStart(t)
    /\ \E f1, f2 \in ForgetData :
         /\ ForgetHandler(t, "forget_multi", <<f1, f2>>)
         /\ kref' = KernelDrops(kref, <<f1, f2>>)
    /\ nreq' = nreq + 1
    /\ UNCHANGED <<dirent, nextIno, pc, req, rt, conn, dirp, hcall, mutex>>

NextForget ==
    \/ Lookup(SeqWorker)
    \/ LookupFind(SeqWorker)
    \/ LookupInsert(SeqWorker)
    \/ LookupRootIdx1(SeqWorker)
    \/ LookupRootIdx2(SeqWorker)
    \/ LookupReply(SeqWorker)
    \/ LoForget(SeqWorker)
    \/ LoForgetMulti(SeqWorker)

SpecForget == Init /\ [][NextForget]_vars

\* ---------------------------------------------------------------------
\* C28: one reply per request.

\* C28: every request is answered exactly once: a forget or batched forget
\* that does not end the process, whether or not its Handles have records,
\* sends the one no-payload reply and nothing else, a forget of a Handle
\* without record changes no state, and a readdir call sends one reply
\* also when it rolls a lookup back.
C28_ExactlyOneReply ==
    [][/\ (nreq' = nreq + 1 /\ reply'.at = nreq'
              /\ reply'.op \in {"forget", "forget_multi"} /\ ~aborted') =>
            /\ reply'.n = 1
            /\ reply'.err = ""
            /\ (\A i \in 1..Len(reply'.forgets) :
                    lo_inode(reply'.forgets[i].ino) = NULL) =>
                 /\ rec' = rec /\ ino_to_ptr' = ino_to_ptr
                 /\ forgotten_inodes' = forgotten_inodes
                 /\ root_dir_inodes' = root_dir_inodes
                 /\ root_dir_names' = root_dir_names
                 /\ nfds' = nfds
       /\ (dirp.open /\ dirp'.open /\ dirp'.nread = dirp.nread + 1) =>
            dirp'.last.replies = 1]_vars

\* ---------------------------------------------------------------------
\* C29: a batched forget and the single forgets.

\* One single forget of f on tables T with readlink outcome ch, as the
\* handler lo_forget runs it: it ends the process if f.n overdraws the
\* record, and otherwise leaves what lo_forget_one leaves.
SingleForget(X, f, ch) ==
    LET p == X.T.ino_to_ptr[f.ino]
    IN  IF X.aborted THEN X
        ELSE IF p # NULL /\ X.T.rec[p].refcount < f.n
        THEN [X EXCEPT !.aborted = TRUE]
        ELSE [X EXCEPT !.T = lo_forget_one(@, f.ino, f.n, ch.res, ch.buf)]

\* C29: a batched forget over a list of two pairs leaves the Inode Table,
\* the records and their refcounts, the ForgottenEntry set, RootChildIndex
\* and the open descriptors as the single forget of the first pair followed
\* by the single forget of the second leaves them, the process having
\* ended in the one case exactly if it has in the other.
C29_BatchEqualsSingles ==
    [][(nreq' = nreq + 1 /\ reply'.at = nreq' /\ reply'.op = "forget_multi") =>
         LET fs == reply'.forgets
             chs == reply'.chs
             X0 == [T |-> Tables, aborted |-> FALSE]
             X2 == SingleForget(SingleForget(X0, fs[1], chs[1]), fs[2], chs[2])
         IN  /\ Len(fs) = 2
             /\ rec' = X2.T.rec
             /\ ino_to_ptr' = X2.T.ino_to_ptr
             /\ forgotten_inodes' = X2.T.forgotten_inodes
             /\ root_dir_inodes' = X2.T.root_dir_inodes
             /\ root_dir_names' = X2.T.root_dir_names
             /\ nfds' = X2.T.nfds
             /\ aborted' = X2.aborted]_vars

\* A batched forget named the same Handle twice; its first element evicted
\* the record, so its second found none.
C29_Witness ==
    /\ reply.op = "forget_multi"
    /\ reply.forgets[1].ino = reply.forgets[2].ino
    /\ reply.n = 2
    /\ ~aborted
    /\ forgotten_inodes[reply.forgets[1].ino] # <<>>
    /\ ino_to_ptr[reply.forgets[1].ino] = NULL

\* ---------------------------------------------------------------------
\* lo_create as a handler on one dispatch thread.

\* openat(dirfd, name, (flags | O_CREAT) & ~O_NOFOLLOW, mode): the inode the
\* descriptor is open on, a new one if the name was free; -1 on a missing
\* or non-directory dirfd and on a name that is a directory.
openat_creat(dirfd, name) ==
    IF dirfd = NoFd \/ ~IsDir(dirfd) THEN NoFd
    ELSE IF dirent[dirfd, name] = 0 THEN nextIno
    ELSE IF IsDir(dirent[dirfd, name]) THEN NoFd
    ELSE dirent[dirfd, name]

\* lo_create, lines 826-829: the open, and the error reply if it fails.
Create(t) ==
    /\ CanStart(t)
    /\ \E parent \in Handles, name \in FsNames :
         LET fd == openat_creat(lo_fd(parent), name)
         IN  /\ HasRef(parent)
             /\ IF fd = NoFd
                THEN /\ reply' = [NoReply EXCEPT !.op = "create", !.ino = parent,
                                                 !.n = 1, !.err = "errno",
                                                 !.at = nreq + 1]
                     /\ UNCHANGED <<dirent, nextIno, nfds, pc, req>>
                ELSE /\ dirent' = [dirent EXCEPT ![lo_fd(parent), name] = fd]
                     /\ nextIno' = IF fd = nextIno THEN nextIno + 1 ELSE nextIno
                     /\ nfds' = nfds + 1
                     /\ pc' = [pc EXCEPT ![t] = "create_lookup"]
                     /\ req' = [req EXCEPT ![t] =
                                  [IdleReq EXCEPT !.op = "create",
                                                  !.parent = parent,
                                                  !.name = name, !.newfd = fd,
                                                  !.fds0 = nfds]]
                     /\ UNCHANGED reply
    /\ nreq' = nreq + 1
    /\ UNCHANGED <<rec, ino_to_ptr, forgotten_inodes, root_dir_inodes,
                   root_dir_names, kref, aborted, rt, conn, dirp, hcall, mutex>>

\* lo_create, lines 831-843: fi->fh = fd, lo_do_lookup and the reply. On
\* success the descriptor belongs to the open file the reply hands out.
CreateLookup(t) ==
    /\ pc[t] = "create_lookup" /\ ~aborted
    /\ \E fail \in {"none", "stat", "alloc"} :
         LET lk == lo_do_lookup(Tables, req[t].parent, req[t].name, fail,
                                ErrnoOf(fail))
         IN  /\ rec' = lk.T.rec
             /\ ino_to_ptr' = lk.T.ino_to_ptr
             /\ forgotten_inodes' = lk.T.forgotten_inodes
             /\ root_dir_inodes' = lk.T.root_dir_inodes
             /\ root_dir_names' = lk.T.root_dir_names
             /\ nfds' = lk.T.nfds
             /\ kref' = IF lk.err = 0 THEN KernelTakesRef(lk.ino) ELSE kref
             /\ reply' = [NoReply EXCEPT
                            !.op = "create", !.ino = req[t].parent, !.n = 1,
                            !.err = IF lk.err = 0 THEN "" ELSE "errno",
                            !.left = IF lk.err = 0 THEN 0
                                     ELSE lk.T.nfds - req[t].fds0,
                            !.at = nreq]
    /\ Finish(t)
    /\ UNCHANGED <<dirent, nextIno, nreq, aborted, rt, conn, dirp, hcall, mutex>>

NextCreate ==
    \/ Lookup(SeqWorker)
    \/ LookupFind(SeqWorker)
    \/ LookupInsert(SeqWorker)
    \/ LookupRootIdx1(SeqWorker)
    \/ LookupRootIdx2(SeqWorker)
    \/ LookupReply(SeqWorker)
    \/ Create(SeqWorker)
    \/ CreateLookup(SeqWorker)
    \/ Opendir(SeqWorker)
    \/ Releasedir(SeqWorker)

SpecCreate == Init /\ [][NextCreate]_vars

\* ---------------------------------------------------------------------
\* C30: an error reply leaves no descriptor of the call open.

\* C30: a create or an open-directory that replies an error has closed
\* every descriptor it opened: the descriptors open after the reply
\* (reply.left counts them against those open when the request arrived)
\* are those open when the request arrived.
C30_ErrorReplyLeavesNoDescriptor ==
    [][(reply' # reply /\ reply'.op \in {"create", "opendir"}
            /\ reply'.err # "") =>
          reply'.left = 0]_vars

\* ---------------------------------------------------------------------
\* C31: the assertion of unref_inode under a kernel that respects its
\* lookup counts.

\* C31: the kernel forgets no more references to a Handle than the entry
\* replies it got for it (Forget draws n from 1..kref), so no thread ever
\* reaches the assertion refcount >= n of unref_inode with a count larger
\* than the refcount of the live record it holds.
C31_ReleaseAssertNeverFails ==
    \A t \in Workers : ~Overdrawn(t)

\* ---------------------------------------------------------------------
\* C32: ForgottenEntry set and Inode Table.

\* C32: no Handle is registered in the Inode Table while it has a pending
\* ForgottenEntry.
C32_ForgottenDisjointFromTable ==
    \A h \in Handles :
        forgotten_inodes[h] # <<>> => ino_to_ptr[h] = NULL

\* ---------------------------------------------------------------------
\* C33: the key, the stored Handle and the hash.

\* C33: every non-root record in the Inode Table is registered under its
\* stored Handle (nodeid), and that Handle is hash_st_ino of the record's
\* device and inode.
C33_KeyIsNodeidIsHash ==
    \A h \in Handles \ {FUSE_ROOT_ID} :
        ino_to_ptr[h] # NULL =>
            /\ rec[ino_to_ptr[h]].nodeid = h
            /\ h = hash_st_ino(rec[ino_to_ptr[h]].dev, rec[ino_to_ptr[h]].ino)

\* ---------------------------------------------------------------------
\* C34: no orphaned record or descriptor.

\* Record p is registered under some Handle.
Registered(p) == \E h \in Handles : ino_to_ptr[h] = p

\* C34: when no request is in flight every record allocated and not freed
\* is registered in the Inode Table; once the kernel has forgotten every
\* reference it was given, the table holds only the root record and only
\* the root's descriptor is open; and the insert of a lookup never replaces
\* the registration of another live record.
C34_NoOrphans ==
    [][/\ Quiescent' =>
            /\ \A p \in 1..Len(rec') :
                  (p # RootRec /\ rec'[p].frees = 0) => Registered(p)'
            /\ (\A h \in Handles \ {FUSE_ROOT_ID} : kref'[h] = 0) =>
                  /\ \A h \in Handles \ {FUSE_ROOT_ID} : ino_to_ptr'[h] = NULL
                  /\ nfds' = 1
       /\ \A h \in Handles :
            (ino_to_ptr'[h] # ino_to_ptr[h] /\ ino_to_ptr'[h] # NULL) =>
               \/ ino_to_ptr[h] = NULL
               \/ rec[ino_to_ptr[h]].frees > 0]_vars

\* ---------------------------------------------------------------------
\* C35: use after free.

\* The points of a handler whose next step reads or writes the record it
\* holds a pointer to: unref_inode (lines 559-586), the refcount++ and the
\* reply of lo_link (lines 501-503), the tail of lo_do_lookup (lines 385-389).
DerefPoints ==
    {"unref", "unref_free", "link_ref", "lookup_rootidx1", "lookup_rootidx2",
     "lookup_reply"}

\* C35: no record is freed twice, and no handler is about to read or write
\* a record that has been freed.
C35_NoUseAfterFree ==
    /\ \A p \in 1..Len(rec) : rec[p].frees <= 1
    /\ \A t \in Workers :
         pc[t] \in DerefPoints => rec[req[t].inode].frees = 0

(* ------------------------ lo.mutex, step by step ----------------------- *)
\* The points at which a thread calls pthread_mutex_lock: lo_find
\* (line 307), the registration in lo_do_lookup (line 373), unref_inode
\* (line 558) and lo_link (line 500).
LockPoints == {"lookup_find", "lookup_insert", "unref", "link_ref"}

\* The thread's position once pthread_mutex_lock has returned.
Locked(point) ==
    CASE point = "lookup_find" -> "find_locked"
      [] point = "lookup_insert" -> "insert_locked"
      [] point = "unref" -> "unref_locked"
      [] point = "link_ref" -> "link_locked"

\* The ends of the critical sections: the hit and the miss of lo_find
\* (lines 312, 316), the registration (line 380), lo_link (line 502), the
\* eviction and the other branch of unref_inode (lines 584, 589).
SectionEnds == {"find_hit", "find_miss", "inserted", "linked", "evicted", "kept"}

\* pthread_mutex_lock of a default (non-recursive) mutex: returns when the
\* mutex is unlocked; a thread that holds it already waits for ever.
MutexLock(t) ==
    /\ pc[t] \in LockPoints /\ ~aborted
    /\ mutex = Unlocked
    /\ mutex' = t
    /\ pc' = [pc EXCEPT ![t] = Locked(pc[t])]
    /\ UNCHANGED <<dirent, nextIno, rec, ino_to_ptr, forgotten_inodes,
                   root_dir_inodes, root_dir_names, req, kref, nfds, nreq,
                   aborted, rt, conn, dirp, hcall, reply>>

\* lo_find, lines 308-311 and 315: the body of the critical section.
MutexFind(t) ==
    /\ pc[t] = "find_locked" /\ ~aborted
    /\ LET ret == ino_to_ptr[hash_st_ino(RootDev, req[t].st_ino)]
       IN  IF ret # NULL
           THEN \E rc \in ReadRefcount(ret) :
                IF rc > 0
                THEN /\ rec' = [rec EXCEPT ![ret] = Acquire([@ EXCEPT !.refcount = rc])]
                     /\ req' = [req EXCEPT ![t].inode = ret]
                     /\ pc' = [pc EXCEPT ![t] = "find_hit"]
                     /\ UNCHANGED aborted
                ELSE /\ aborted' = TRUE
                     /\ UNCHANGED <<rec, req, pc>>
           ELSE /\ pc' = [pc EXCEPT ![t] = "find_miss"]
                /\ UNCHANGED <<rec, req, aborted>>
    /\ UNCHANGED <<dirent, nextIno, ino_to_ptr, forgotten_inodes,
                   root_dir_inodes, root_dir_names, kref, nfds, nreq, rt,
                   conn, dirp, hcall, reply, mutex>>

\* lo_do_lookup, lines 374-379: the body of the registration.
MutexInsert(t) ==
    /\ pc[t] = "insert_locked" /\ ~aborted
    /\ LET nodeid == IF req[t].recovered THEN req[t].parent
                     ELSE hash_st_ino(RootDev, req[t].st_ino)
       IN  /\ rec' = [rec EXCEPT ![req[t].inode].nodeid = nodeid]
           /\ ino_to_ptr' = [ino_to_ptr EXCEPT ![nodeid] = req[t].inode]
           /\ forgotten_inodes' = EraseRecovered(forgotten_inodes, req[t])
    /\ pc' = [pc EXCEPT ![t] = "inserted"]
    /\ UNCHANGED <<dirent, nextIno, root_dir_inodes, root_dir_names, req, kref,
                   nfds, nreq, aborted, rt, conn, dirp, hcall, reply, mutex>>

\* unref_inode, lines 559-582: the body of the critical section.
MutexUnref(t) ==
    /\ pc[t] = "unref_locked" /\ ~aborted
    /\ LET p == req[t].inode
           n == req[t].n
       IN  \E rc \in ReadRefcount(p), nodeid \in ReadNodeid(p) :
             IF ~unref_assert(rc, n)
             THEN /\ aborted' = TRUE
                  /\ UNCHANGED <<rec, forgotten_inodes, root_dir_inodes,
                                 root_dir_names, ino_to_ptr, pc>>
             ELSE IF Sub64(rc, n) # 0
             THEN /\ rec' = [rec EXCEPT ![p].refcount = Sub64(rc, n)]
                  /\ pc' = [pc EXCEPT ![t] = "kept"]
                  /\ UNCHANGED <<forgotten_inodes, root_dir_inodes,
                                 root_dir_names, ino_to_ptr, aborted>>
             ELSE \E res \in BOOLEAN, buf \in Readlink(rec[p].fd) :
                  LET root_dir_name == IF nodeid \in Handles
                                       THEN root_dir_names[nodeid] ELSE ""
                  IN  /\ rec' = [rec EXCEPT ![p].refcount = 0]
                      /\ forgotten_inodes' =
                            IF res THEN [forgotten_inodes EXCEPT ![nodeid] = buf]
                            ELSE forgotten_inodes
                      /\ root_dir_inodes' =
                            IF root_dir_name # ""
                            THEN [root_dir_inodes EXCEPT ![root_dir_name] = 0]
                            ELSE root_dir_inodes
                      /\ root_dir_names' =
                            IF root_dir_name # ""
                            THEN [root_dir_names EXCEPT ![nodeid] = ""]
                            ELSE root_dir_names
                      /\ ino_to_ptr' = EraseNodeid(ino_to_ptr, nodeid)
                      /\ pc' = [pc EXCEPT ![t] = "evicted"]
                      /\ UNCHANGED aborted
    /\ UNCHANGED <<dirent, nextIno, req, kref, nfds, nreq, rt, conn, dirp,
                   hcall, reply, mutex>>

\* lo_link, line 501: inode->refcount++.
MutexLink(t) ==
    /\ pc[t] = "link_locked" /\ ~aborted
    /\ \E rc \in ReadRefcount(req[t].inode) :
         rec' = [rec EXCEPT ![req[t].inode].refcount = rc + 1]
    /\ pc' = [pc EXCEPT ![t] = "linked"]
    /\ UNCHANGED <<dirent, nextIno, ino_to_ptr, forgotten_inodes,
                   root_dir_inodes, root_dir_names, req, kref, nfds, nreq,
                   aborted, rt, conn, dirp, hcall, reply, mutex>>

\* What follows each end of a critical section: the close of the duplicate
\* descriptor after a hit (lines 359-361), calloc after a miss (line 363),
\* the root index or the reply after the registration (lines 382-389),
\* e.ino and the reply of lo_link (lines 503-510), close and free after an
\* eviction (lines 585-586), the return of unref_inode otherwise.
AfterSection(end, r) ==
    CASE end = "find_hit" -> "lookup_reply"
      [] end = "find_miss" -> "lookup_alloc"
      [] end = "inserted" -> IF r.parent = FUSE_ROOT_ID THEN "lookup_rootidx1"
                             ELSE "lookup_reply"
      [] end = "linked" -> "link_reply"
      [] end = "evicted" -> "unref_free"
      [] end = "kept" -> "idle"

\* pthread_mutex_unlock, which every end of a critical section calls, and
\* the thread-local statement that follows it.
MutexUnlock(t) ==
    /\ pc[t] \in SectionEnds /\ ~aborted
    /\ mutex' = Unlocked
    /\ pc' = [pc EXCEPT ![t] = AfterSection(pc[t], req[t])]
    /\ req' = [req EXCEPT ![t] = IF pc[t] = "kept" THEN IdleReq
                                 ELSE IF pc[t] = "find_hit"
                                 THEN [@ EXCEPT !.newfd = NoFd]
                                 ELSE @]
    /\ nfds' = IF pc[t] = "find_hit" THEN nfds - 1 ELSE nfds
    /\ UNCHANGED <<dirent, nextIno, rec, ino_to_ptr, forgotten_inodes,
                   root_dir_inodes, root_dir_names, kref, nreq, aborted, rt,
                   conn, dirp, hcall, reply>>

\* lo_do_lookup, lines 363-372: calloc and the fields of the new record,
\* before the mutex is taken; out_err when calloc fails.
MutexAlloc(t) ==
    /\ pc[t] = "lookup_alloc" /\ ~aborted
    /\ \E allocOk \in BOOLEAN :
         IF ~allocOk
         THEN /\ Finish(t)
              /\ nfds' = out_err(nfds, req[t].newfd)
              /\ UNCHANGED rec
         ELSE /\ rec' = Append(rec, [fd |-> req[t].newfd, ino |-> req[t].st_ino,
                                     dev |-> RootDev, refcount |-> 1,
                                     nodeid |-> 0, closes |-> 0, frees |-> 0])
              /\ req' = [req EXCEPT ![t].inode = Len(rec) + 1]
              /\ pc' = [pc EXCEPT ![t] = "lookup_insert"]
              /\ UNCHANGED nfds
    /\ UNCHANGED <<dirent, nextIno, ino_to_ptr, forgotten_inodes,
                   root_dir_inodes, root_dir_names, kref, nreq, aborted, rt,
                   conn, dirp, hcall, reply, mutex>>

\* lo_link, lines 503-510: e.ino = inode->nodeid and fuse_reply_entry,
\* after the unlock.
MutexLinkReply(t) ==
    /\ pc[t] = "link_reply" /\ ~aborted
    /\ \E v \in ReadNodeid(req[t].inode) : kref' = KernelTakesRef(v)
    /\ Finish(t)
    /\ UNCHANGED <<dirent, nextIno, rec, ino_to_ptr, forgotten_inodes,
                   root_dir_inodes, root_dir_names, nfds, nreq, aborted, rt,
                   conn, dirp, hcall, reply, mutex>>

\* lo_do_readdir with plus set, lines 744-754: lo_do_lookup of one entry of
\* the directory ino.
MutexReaddirplus(t) ==
    /\ CanStart(t)
    /\ \E ino \in Handles, name \in FsNames :
         /\ HasRef(ino)
         /\ openat(lo_fd(ino), name) # NoFd
         /\ LookupOpenOn(t, [IdleReq EXCEPT !.op = "readdirplus", !.parent = ino,
                                            !.name = name])
    /\ nreq' = nreq + 1
    /\ UNCHANGED <<dirent, nextIno, rec, ino_to_ptr, forgotten_inodes,
                   root_dir_inodes, root_dir_names, kref, aborted, conn, dirp,
                   hcall, reply, mutex>>

\* lo_do_readdir, lines 766-770: the entry does not fit (entsize > rem) and
\* lo_forget_one(req, entry_ino, 1) gives back the reference the lookup
\* took, after the lookup has returned.
MutexRollback(t) ==
    /\ pc[t] = "lookup_reply" /\ ~aborted
    /\ req[t].op = "readdirplus"
    /\ \E v \in ReadNodeid(req[t].inode) :
         IF v \in Handles
         THEN ForgetReadOn(t, [req[t] EXCEPT !.ino = v, !.n = RollbackCount])
         ELSE Finish(t) /\ UNCHANGED rt
    /\ UNCHANGED <<dirent, nextIno, rec, ino_to_ptr, forgotten_inodes,
                   root_dir_inodes, root_dir_names, kref, nfds, nreq, aborted,
                   conn, dirp, hcall, reply, mutex>>

\* The number of requests the kernel sends while the mutex is followed
\* step by step.
MaxMutexReqs == 3

NextMutex ==
    \E t \in Workers :
        \/ nreq < MaxMutexReqs /\ Lookup(t)
        \/ nreq < MaxMutexReqs /\ MutexReaddirplus(t)
        \/ nreq < MaxMutexReqs /\ Forget(t)
        \/ nreq < MaxMutexReqs /\ Link(t)
        \/ MutexLock(t)
        \/ MutexFind(t)
        \/ MutexAlloc(t)
        \/ MutexInsert(t)
        \/ MutexUnref(t)
        \/ MutexLink(t)
        \/ MutexUnlock(t)
        \/ MutexLinkReply(t)
        \/ MutexRollback(t)
        \/ LookupRootIdx1(t)
        \/ LookupRootIdx2(t)
        \/ LookupReply(t)
        \/ UnrefFree(t)


\* The steps of a request in flight that do not wait for the mutex.
MutexStep(t) ==
    \/ MutexFind(t)
    \/ MutexAlloc(t)
    \/ MutexInsert(t)
    \/ MutexUnref(t)
    \/ MutexLink(t)
    \/ MutexUnlock(t)
    \/ MutexLinkReply(t)
    \/ MutexRollback(t)
    \/ LookupRootIdx1(t)
    \/ LookupRootIdx2(t)
    \/ LookupReply(t)
    \/ UnrefFree(t)

\* fuse_session_loop_mt: a dispatch thread that can run does run (its
\* syscalls return), and a thread waiting in pthread_mutex_lock gets the
\* mutex when it is released again and again.
SpecMutexLive ==
    /\ Init /\ [][NextMutex]_vars
    /\ \A t \in Workers : WF_vars(MutexStep(t)) /\ SF_vars(MutexLock(t))

\* C36: lo.mutex is released on every path of every operation that takes it
\* and is never taken by the thread that holds it, and every lookup, link,
\* forget and readdirplus request in flight completes.
C36_MutexReleasedAndRequestsComplete ==
    /\ [](\A t \in Workers :
             /\ mutex = t => pc[t] \in {Locked(p) : p \in LockPoints} \cup SectionEnds
             /\ pc[t] \in LockPoints => mutex # t)
    /\ \A t \in Workers : (pc[t] # "idle") ~> (pc[t] = "idle")

\* A thread waits in pthread_mutex_lock while the other holds the mutex.
C36_Witness ==
    \E t \in Workers : pc[t] \in LockPoints /\ mutex \in Workers \ {t}

\* C37: a step of a delete-notification request, whatever its name and
\* whatever the invalidation call returns, leaves the table, every record,
\* the forgotten paths and the set of registered names as they were, and a
\* Handle leaves the table only in unref_inode on behalf of a forget.
C37_NotifyLeavesStateAlone ==
    [][/\ (\E c \in RpcConns : pc'[c] # pc[c] \/ req'[c] # req[c]) =>
            /\ UNCHANGED <<ino_to_ptr, rec, forgotten_inodes>>
            /\ {n \in Names : root_dir_inodes'[n] # 0} =
                  {n \in Names : root_dir_inodes[n] # 0}
       /\ \A h \in Handles :
            (ino_to_ptr[h] # NULL /\ ino_to_ptr'[h] = NULL) =>
                \E t \in Workers : /\ pc[t] = "unref" /\ req[t].op = "forget"
                                    /\ pc'[t] = "unref_free"]_vars

\* The invalidation call for a registered name has failed and its result is
\* about to be written back.
C37_Witness ==
    \E c \in RpcConns : /\ pc[c] = "rpc_write" /\ req[c].notified
                         /\ req[c].ret # 0 /\ root_dir_inodes[req[c].name] # 0

\* C38: whenever no request is mid-operation, root_dir_inodes and
\* root_dir_names are inverse to each other: name n maps to Handle H if and
\* only if H maps to n.
C38_RootIndexInverse ==
    Quiescent =>
        \A n \in Names, h \in Handles :
            root_dir_inodes[n] = h <=> root_dir_names[h] = n

\* C39: a read_dir that met no error and replied a page replies an empty
\* page only when the stream has no entry left at the requested offset,
\* whatever the capacity of the buffer.
C39_EmptyPageOnlyAtEnd ==
    (/\ dirp.open /\ dirp.nread > 0
     /\ dirp.last.err = 0 /\ ~dirp.last.error
     /\ dirp.last.page = <<>>) =>
        dirp.last.offset >= Len(dirp.stream)

\* A call whose buffer holds the next entry has replied a page with entries
\* in it.
C39_Witness ==
    /\ dirp.open /\ dirp.nread > 0
    /\ dirp.last.err = 0 /\ ~dirp.last.error
    /\ dirp.last.page # <<>>
    /\ dirp.last.offset + Len(dirp.last.page) < Len(dirp.stream)

(* -------------------------------- teardown ----------------------------- *)
\* lo_destroy, lines 202-208, called by fuse_session_destroy (line 1479)
\* once the session loop has returned: free(it->second) for every entry of
\* ino_to_ptr.
Destroy ==
    /\ Quiescent /\ ~aborted
    /\ rec' = [p \in 1..Len(rec) |->
                 [rec[p] EXCEPT !.frees =
                    @ + Cardinality({h \in Handles : ino_to_ptr[h] = p})]]
    /\ pc' = [pc EXCEPT ![SeqWorker] = "destroyed"]
    /\ UNCHANGED <<dirent, nextIno, ino_to_ptr, forgotten_inodes,
                   root_dir_inodes, root_dir_names, req, kref, nfds, nreq,
                   aborted, rt, conn, dirp, hcall, reply, mutex>>

NextDestroy ==
    \/ SeqNext
    \/ Destroy

SpecDestroy == Init /\ [][NextDestroy]_vars

\* C40: after lo_destroy every heap record that was in the table has been
\* freed exactly once, and the root record, which is static, has not been
\* passed to free.
C40_TeardownFreesHeapOnceNotRoot ==
    pc[SeqWorker] = "destroyed" =>
        /\ \A p \in 1..Len(rec) : (p # RootRec /\ Registered(p)) => rec[p].frees = 1
        /\ rec[RootRec].frees = 0

\* lo_destroy has run with a heap record in the table.
C40_Witness ==
    /\ pc[SeqWorker] = "destroyed"
    /\ \E p \in 1..Len(rec) : p # RootRec /\ Registered(p)

====
